---- MODULE Spec2Model ----
(***************************************************************************)
(* A model of the eBay lister: the category rule table and the condition   *)
(* reconciler (category_rules.py), the AI response normalizer              *)
(* (ai_analyzer.py) and the listing endpoints (main.py, inventory_flow.py).*)
(* Python strings are TLA+ strings; dicts whose order matters are          *)
(* sequences of <<key, value>> pairs, other dicts are functions.           *)
(***************************************************************************)
EXTENDS Integers, Sequences, FiniteSets, TLC

VARIABLES
    call,        \* category_rules: the function being called
    condition,   \* category_rules: argument `condition`
    item_type,   \* category_rules: argument `item_type`
    aspects_arg, \* category_rules: argument `aspects` as the caller passed it
    aspects,     \* category_rules: the dict `aspects` (mutated in place)
    result,      \* category_rules: the value returned
    pc,          \* category_rules: "start" or "done"
    raw_data,    \* normalizer: the raw record passed in, field -> value
    tie_below,   \* normalizer: the float of a price on a decimal tie lies below it
    normalized,  \* normalizer: what the call on `data` returned or raised
    renormalized,\* normalizer: what the call on the returned record returned
    npc,         \* normalizer: "start", "returned", "raised" or "again"
    env,         \* service: the settings read from the environment at import
    route,       \* service: the route of the request being handled
    form,        \* service: the inputs of the request being handled
    lpc,         \* service: the handler's position
    category_id, \* service: the category the handler resolved
    calls,       \* service: the eBay calls made while handling the request, each
                 \*          with whether eBay accepted it
    status,      \* service: the HTTP status answered (0 while handling)
    session,     \* service: the offer ids of session['pending_listing'] (none or one)
    published,   \* service: the offers published as live listings
    nreq,        \* service: the requests received so far
    failures,    \* service: the <<route, cause, status>> of the failures answered so far
    attempt,     \* trading_call: the loop variable `attempt`
    responses,   \* trading_call: the responses received, one per request sent
    slept,       \* trading_call: the time slept, in half seconds
    tpc,         \* trading_call: "loop", or how the call ended
    now,         \* auth: time.time(), in seconds
    os_env,      \* auth: the credentials and EBAY_ACCESS_TOKEN of the environment
    token_cache, \* auth: _TOKEN_CACHE
    requests_sent, \* auth: the refresh requests posted so far
    granted,     \* auth: the time, lifetime and token of the last successful refresh
    last_call,   \* auth: the last get_oauth_token call and the grant it found
    builder,     \* payloads: the builder being called
    args,        \* payloads: its arguments
    settings,    \* payloads: the settings inventory_flow read at import
    payload,     \* payloads: what the builder returned or raised
    bpc,         \* payloads: "start" or "done"
    matcher,     \* category_matcher: the function being called
    categories,  \* category_matcher: the table load_categories returns
    query,       \* category_matcher: the arguments and DEFAULT_CATEGORY_ID
    suggestions, \* category_matcher: what suggest_category returned
    best_id,     \* category_matcher: what get_best_category_id returned or raised
    mpc          \* category_matcher: "start" or "done"

rulesVars == <<call, condition, item_type, aspects_arg, aspects, result, pc>>

normVars == <<raw_data, tie_below, normalized, renormalized, npc>>

serviceVars ==
    <<env, route, form, lpc, category_id, calls, status, session, published, nreq,
      failures>>

tradingVars == <<attempt, responses, slept, tpc>>

authVars == <<now, os_env, token_cache, requests_sent, granted, last_call>>

payloadVars == <<builder, args, settings, payload, bpc>>

matcherVars == <<matcher, categories, query, suggestions, best_id, mpc>>

vars ==
    <<rulesVars, normVars, serviceVars, tradingVars, authVars, payloadVars, matcherVars>>

\* The components a specification does not exercise stay idle.
RulesIdle ==
    /\ call = "" /\ condition = "" /\ item_type = "" /\ aspects_arg = <<>>
    /\ aspects = <<>> /\ result = <<>> /\ pc = "idle"
NormIdle ==
    /\ raw_data = <<>> /\ tie_below = FALSE /\ normalized = <<>> /\ renormalized = <<>>
    /\ npc = "idle"
ServiceIdle ==
    /\ env = <<>> /\ route = "" /\ form = <<>> /\ lpc = "idle" /\ category_id = ""
    /\ calls = <<>> /\ status = 0 /\ session = {} /\ published = {} /\ nreq = 0
    /\ failures = {}
TradingIdle == attempt = 0 /\ responses = <<>> /\ slept = 0 /\ tpc = "idle"
AuthIdle ==
    /\ now = 0 /\ os_env = <<>> /\ token_cache = <<>> /\ requests_sent = 0
    /\ granted = <<>> /\ last_call = <<>>
PayloadIdle ==
    builder = "" /\ args = <<>> /\ settings = <<>> /\ payload = <<>> /\ bpc = "idle"
MatcherIdle ==
    /\ matcher = "" /\ categories = <<>> /\ query = <<>> /\ suggestions = <<>>
    /\ best_id = <<>> /\ mpc = "idle"

\* What the actions of one component leave alone, and the state of the
\* components a specification of it does not exercise.
exceptRules ==
    <<normVars, serviceVars, tradingVars, authVars, payloadVars, matcherVars>>
exceptNorm ==
    <<rulesVars, serviceVars, tradingVars, authVars, payloadVars, matcherVars>>
exceptService ==
    <<rulesVars, normVars, tradingVars, authVars, payloadVars, matcherVars>>
exceptTrading ==
    <<rulesVars, normVars, serviceVars, authVars, payloadVars, matcherVars>>
exceptAuth ==
    <<rulesVars, normVars, serviceVars, tradingVars, payloadVars, matcherVars>>
exceptPayload ==
    <<rulesVars, normVars, serviceVars, tradingVars, authVars, matcherVars>>
exceptMatcher ==
    <<rulesVars, normVars, serviceVars, tradingVars, authVars, payloadVars>>
RulesAlone ==
    NormIdle /\ ServiceIdle /\ TradingIdle /\ AuthIdle /\ PayloadIdle /\ MatcherIdle
NormAlone ==
    RulesIdle /\ ServiceIdle /\ TradingIdle /\ AuthIdle /\ PayloadIdle /\ MatcherIdle
ServiceAlone ==
    RulesIdle /\ NormIdle /\ TradingIdle /\ AuthIdle /\ PayloadIdle /\ MatcherIdle
TradingAlone ==
    RulesIdle /\ NormIdle /\ ServiceIdle /\ AuthIdle /\ PayloadIdle /\ MatcherIdle
AuthAlone ==
    RulesIdle /\ NormIdle /\ ServiceIdle /\ TradingIdle /\ PayloadIdle /\ MatcherIdle
PayloadAlone ==
    RulesIdle /\ NormIdle /\ ServiceIdle /\ TradingIdle /\ AuthIdle /\ MatcherIdle
MatcherAlone ==
    RulesIdle /\ NormIdle /\ ServiceIdle /\ TradingIdle /\ AuthIdle /\ PayloadIdle

(***************************************************************************)
(* Bounds of the model.                                                    *)
(***************************************************************************)
MaxCondWords == 2   \* words in a composed condition string
MaxVals == 2        \* values in one aspect's list

(***************************************************************************)
(* Python built-ins on str.                                                *)
(***************************************************************************)
LowerAlpha == "abcdefghijklmnopqrstuvwxyz"
UpperAlpha == "ABCDEFGHIJKLMNOPQRSTUVWXYZ"
Whitespace == {" ", "\t", "\n", "\r"}

CharAt(s, i) == SubSeq(s, i, i)

\* One character mapped from alphabet `from` to alphabet `to`.
CharMap(c, from, to) ==
    IF \E i \in 1..Len(from) : CharAt(from, i) = c
    THEN CharAt(to, CHOOSE i \in 1..Len(from) : CharAt(from, i) = c)
    ELSE c

\* str.lower() and str.upper().  The strings are split in halves, so that the depth of the evaluation grows
\* with the logarithm of the length.
RECURSIVE Lower(_)
Lower(s) ==
    IF Len(s) = 0 THEN ""
    ELSE IF Len(s) = 1 THEN CharMap(s, UpperAlpha, LowerAlpha)
    ELSE Lower(SubSeq(s, 1, Len(s) \div 2)) \o Lower(SubSeq(s, Len(s) \div 2 + 1, Len(s)))

RECURSIVE Upper(_)
Upper(s) ==
    IF Len(s) = 0 THEN ""
    ELSE IF Len(s) = 1 THEN CharMap(s, LowerAlpha, UpperAlpha)
    ELSE Upper(SubSeq(s, 1, Len(s) \div 2)) \o Upper(SubSeq(s, Len(s) \div 2 + 1, Len(s)))

\* s.replace(old, new) for a one-character `old`.
RECURSIVE Replace(_, _, _)
Replace(s, old, new) ==
    IF Len(s) = 0 THEN ""
    ELSE IF Len(s) = 1 THEN (IF s = old THEN new ELSE s)
    ELSE Replace(SubSeq(s, 1, Len(s) \div 2), old, new)
         \o Replace(SubSeq(s, Len(s) \div 2 + 1, Len(s)), old, new)

\* s.strip(): from the first to the last character that is not whitespace.
Strip(s) ==
    LET kept == {i \in 1..Len(s) : CharAt(s, i) \notin Whitespace}
    IN  IF kept = {} THEN ""
        ELSE SubSeq(s, CHOOSE i \in kept : \A j \in kept : i <= j,
                       CHOOSE i \in kept : \A j \in kept : i >= j)

\* The Python test `sub in s`.
Contains(sub, s) ==
    \E i \in 1..(Len(s) - Len(sub) + 1) : SubSeq(s, i, i + Len(sub) - 1) = sub

\* s[:n]
Truncate(s, n) == IF Len(s) > n THEN SubSeq(s, 1, n) ELSE s

(***************************************************************************)
(* Python dicts.                                                           *)
(***************************************************************************)
\* An insertion-ordered dict literal is a sequence of <<key, value>> pairs.
PairKeys(pairs) == {pairs[i][1] : i \in DOMAIN pairs}

PairGet(pairs, key, default) ==
    IF key \in PairKeys(pairs)
    THEN pairs[CHOOSE i \in DOMAIN pairs : pairs[i][1] = key][2]
    ELSE default

\* d[k] = v and del d[k] on a dict held as a function.
Put(d, k, v) == [x \in (DOMAIN d) \cup {k} |-> IF x = k THEN v ELSE d[x]]
Del(d, k) == [x \in (DOMAIN d) \ {k} |-> d[x]]
EmptyDict == [x \in {} |-> <<>>]

Min(S) == CHOOSE x \in S : \A y \in S : x <= y

(***************************************************************************)
(* category_rules.py: the rule table.                                      *)
(***************************************************************************)
ClothingRules ==
    [ default_category_id |-> "15687",
      condition_mapping |-> <<
          <<"new", "NEW">>,
          <<"new_without_tags", "NEW_OTHER">>,
          <<"new_with_defects", "NEW_WITH_DEFECTS">>,
          <<"like_new", "PRE_OWNED_EXCELLENT">>,
          <<"excellent", "PRE_OWNED_EXCELLENT">>,
          <<"very_good", "PRE_OWNED_EXCELLENT">>,
          <<"good", "USED_EXCELLENT">>,
          <<"fair", "PRE_OWNED_FAIR">>,
          <<"acceptable", "PRE_OWNED_FAIR">> >>,
      default_condition |-> "PRE_OWNED_EXCELLENT",
      required_aspects |-> <<"Brand", "Department">>,
      default_aspects |-> << <<"Brand", "Unbranded">>, <<"Department", "Unisex Adults">> >>,
      single_value_aspects |-> <<"Colour", "Size", "Department">> ]

KitchenwareRules ==
    [ default_category_id |-> "20693",
      condition_mapping |-> <<
          <<"new", "NEW">>,
          <<"new_other", "NEW_OTHER">>,
          <<"like_new", "NEW_OTHER">>,
          <<"excellent", "USED_EXCELLENT">>,
          <<"very_good", "USED_EXCELLENT">>,
          <<"good", "USED_EXCELLENT">>,
          <<"fair", "USED_EXCELLENT">>,
          <<"acceptable", "USED_EXCELLENT">>,
          <<"used", "USED_EXCELLENT">> >>,
      default_condition |-> "USED_EXCELLENT",
      required_aspects |-> <<"Brand">>,
      default_aspects |-> << <<"Brand", "Unbranded">> >>,
      single_value_aspects |-> <<"Colour">> ]

ShoesRules ==
    [ default_category_id |-> "93427",
      condition_mapping |-> <<
          <<"new", "NEW">>,
          <<"new_without_box", "NEW_OTHER">>,
          <<"new_with_defects", "NEW_WITH_DEFECTS">>,
          <<"like_new", "PRE_OWNED_EXCELLENT">>,
          <<"excellent", "PRE_OWNED_EXCELLENT">>,
          <<"very_good", "PRE_OWNED_EXCELLENT">>,
          <<"good", "USED_EXCELLENT">>,
          <<"fair", "PRE_OWNED_FAIR">>,
          <<"acceptable", "PRE_OWNED_FAIR">> >>,
      default_condition |-> "PRE_OWNED_EXCELLENT",
      required_aspects |-> <<"Brand", "UK Shoe Size">>,
      default_aspects |-> << <<"Brand", "Unbranded">> >>,
      single_value_aspects |-> <<"Colour", "UK Shoe Size">> ]

BooksRules ==
    [ default_category_id |-> "261186",
      condition_mapping |-> <<
          <<"new", "NEW">>,
          <<"like_new", "LIKE_NEW">>,
          <<"excellent", "LIKE_NEW">>,
          <<"very_good", "USED_VERY_GOOD">>,
          <<"good", "USED_GOOD">>,
          <<"fair", "USED_ACCEPTABLE">>,
          <<"acceptable", "USED_ACCEPTABLE">> >>,
      default_condition |-> "USED_VERY_GOOD",
      required_aspects |-> <<"Brand">>,
      default_aspects |-> << <<"Brand", "Unbranded">> >>,
      single_value_aspects |-> <<>> ]

ElectronicsRules ==
    [ default_category_id |-> "175672",
      condition_mapping |-> <<
          <<"new", "NEW">>,
          <<"like_new", "LIKE_NEW">>,
          <<"excellent", "USED_EXCELLENT">>,
          <<"very_good", "USED_VERY_GOOD">>,
          <<"good", "USED_GOOD">>,
          <<"fair", "USED_ACCEPTABLE">>,
          <<"acceptable", "USED_ACCEPTABLE">>,
          <<"for_parts", "FOR_PARTS_OR_NOT_WORKING">> >>,
      default_condition |-> "USED_VERY_GOOD",
      required_aspects |-> <<"Brand">>,
      default_aspects |-> << <<"Brand", "Unbranded">> >>,
      single_value_aspects |-> <<"Colour">> ]

GeneralRules ==
    [ default_category_id |-> "11450",
      condition_mapping |-> <<
          <<"new", "NEW">>,
          <<"like_new", "LIKE_NEW">>,
          <<"excellent", "USED_EXCELLENT">>,
          <<"very_good", "USED_VERY_GOOD">>,
          <<"good", "USED_GOOD">>,
          <<"fair", "USED_ACCEPTABLE">>,
          <<"acceptable", "USED_ACCEPTABLE">> >>,
      default_condition |-> "USED_VERY_GOOD",
      required_aspects |-> <<"Brand">>,
      default_aspects |-> << <<"Brand", "Unbranded">> >>,
      single_value_aspects |-> <<"Colour">> ]

ITEM_TYPE_RULES ==
    << <<"clothing", ClothingRules>>,
       <<"kitchenware", KitchenwareRules>>,
       <<"shoes", ShoesRules>>,
       <<"books", BooksRules>>,
       <<"electronics", ElectronicsRules>>,
       <<"general", GeneralRules>> >>

type_mapping ==
    << <<"clothing", "clothing">>, <<"clothes", "clothing">>, <<"apparel", "clothing">>,
       <<"t-shirt", "clothing">>, <<"tshirt", "clothing">>, <<"shirt", "clothing">>,
       <<"dress", "clothing">>, <<"jacket", "clothing">>, <<"jeans", "clothing">>,
       <<"trousers", "clothing">>, <<"pants", "clothing">>,
       <<"kitchenware", "kitchenware">>, <<"crockery", "kitchenware">>,
       <<"mug", "kitchenware">>, <<"mugs", "kitchenware">>, <<"cup", "kitchenware">>,
       <<"plate", "kitchenware">>, <<"bowl", "kitchenware">>, <<"dish", "kitchenware">>,
       <<"ceramic", "kitchenware">>, <<"pottery", "kitchenware">>,
       <<"shoes", "shoes">>, <<"shoe", "shoes">>, <<"footwear", "shoes">>,
       <<"trainers", "shoes">>, <<"boots", "shoes">>, <<"heels", "shoes">>,
       <<"sandals", "shoes">>, <<"sneakers", "shoes">>,
       <<"books", "books">>, <<"book", "books">>, <<"media", "books">>,
       <<"dvd", "books">>, <<"cd", "books">>, <<"vinyl", "books">>,
       <<"magazine", "books">>,
       <<"electronics", "electronics">>, <<"electronic", "electronics">>,
       <<"phone", "electronics">>, <<"laptop", "electronics">>,
       <<"computer", "electronics">>, <<"camera", "electronics">>,
       <<"tablet", "electronics">>, <<"gadget", "electronics">>,
       <<"general", "general">>, <<"other", "general">> >>

\* The canonical item type an item-type string resolves to.
standard_type(it) == PairGet(type_mapping, Strip(Lower(it)), "general")

get_item_type_rules(it) ==
    PairGet(ITEM_TYPE_RULES, standard_type(it), GeneralRules)

\* A plausible slip: the fallback is the global default, whatever the item type.
normalize_condition_global_default(cond, it) ==
    LET rules == get_item_type_rules(it)
        condition_map == rules.condition_mapping
        condition_lower == Strip(Replace(Replace(Lower(cond), "_", " "), "-", " "))
        hits == {i \in DOMAIN condition_map : Contains(condition_map[i][1], condition_lower)}
    IN  IF hits # {} THEN condition_map[Min(hits)][2]
        ELSE "USED_VERY_GOOD"

\* A plausible slip: a condition no key matches is returned as it came.
normalize_condition_verbatim(cond, it) ==
    LET rules == get_item_type_rules(it)
        condition_map == rules.condition_mapping
        condition_lower == Strip(Replace(Replace(Lower(cond), "_", " "), "-", " "))
        hits == {i \in DOMAIN condition_map : Contains(condition_map[i][1], condition_lower)}
    IN  IF hits # {} THEN condition_map[Min(hits)][2]
        ELSE cond

normalize_condition_for_type(cond, it) ==
    LET rules == get_item_type_rules(it)
        condition_map == rules.condition_mapping
        condition_lower == Strip(Replace(Replace(Lower(cond), "_", " "), "-", " "))
        hits == {i \in DOMAIN condition_map : Contains(condition_map[i][1], condition_lower)}
    IN  IF hits # {} THEN condition_map[Min(hits)][2]
        ELSE rules.default_condition

\* A plausible slip: only an absent aspect is filled, an empty one is kept.
RECURSIVE FillRequiredAbsentOnly(_, _, _)
FillRequiredAbsentOnly(a, rules, i) ==
    IF i > Len(rules.required_aspects) THEN a
    ELSE LET aspect_name == rules.required_aspects[i]
             default_value == PairGet(rules.default_aspects, aspect_name, "Not Specified")
         IN  IF aspect_name \notin DOMAIN a
             THEN FillRequiredAbsentOnly(Put(a, aspect_name, <<default_value>>), rules, i + 1)
             ELSE FillRequiredAbsentOnly(a, rules, i + 1)

\* The loop over required_aspects, from index i on.
RECURSIVE FillRequired(_, _, _)
FillRequired(a, rules, i) ==
    IF i > Len(rules.required_aspects) THEN a
    ELSE LET aspect_name == rules.required_aspects[i]
             default_value == PairGet(rules.default_aspects, aspect_name, "Not Specified")
         IN  IF aspect_name \notin DOMAIN a \/ a[aspect_name] = <<>>
             THEN FillRequired(Put(a, aspect_name, <<default_value>>), rules, i + 1)
             ELSE FillRequired(a, rules, i + 1)

\* The loop over single_value_aspects, from index i on.
RECURSIVE CollapseSingle(_, _, _)
CollapseSingle(a, rules, i) ==
    IF i > Len(rules.single_value_aspects) THEN a
    ELSE LET aspect_name == rules.single_value_aspects[i]
         IN  IF aspect_name \in DOMAIN a /\ Len(a[aspect_name]) > 1
             THEN CollapseSingle(
                      Put(a, aspect_name,
                          IF aspect_name = "Colour" THEN <<"Multicoloured">>
                          ELSE <<a[aspect_name][1]>>),
                      rules, i + 1)
             ELSE CollapseSingle(a, rules, i + 1)

\* The Color -> Colour conversion.
RenameColor(a) ==
    IF "Color" \in DOMAIN a /\ "Colour" \notin DOMAIN a
    THEN Del(Put(a, "Colour", a["Color"]), "Color")
    ELSE a

apply_required_aspects(a, it) ==
    LET rules == get_item_type_rules(it)
    IN  RenameColor(CollapseSingle(FillRequired(a, rules, 1), rules, 1))

(***************************************************************************)
(* Python values, as json.loads builds them.  A value is a record tagged   *)
(* by its type t:                                                          *)
(*   missing (the key is absent), null, bool b, str s, int n, pow10 k (the *)
(*   int 10^k), float m (the finite float m/1000), nan, inf, ninf (-inf),  *)
(*   list l (a sequence of values), dict d (<<key, value>> pairs, the keys *)
(*   distinct, in insertion order).                                        *)
(***************************************************************************)
Missing == [t |-> "missing"]
JNull == [t |-> "null"]
JBool(b) == [t |-> "bool", b |-> b]
JStr(s) == [t |-> "str", s |-> s]
JInt(n) == [t |-> "int", n |-> n]
JPow10(k) == [t |-> "pow10", k |-> k]
JFloat(m) == [t |-> "float", m |-> m]
JNaN == [t |-> "nan"]
JInf == [t |-> "inf"]
JNegInf == [t |-> "ninf"]
JList(l) == [t |-> "list", l |-> l]
JDict(d) == [t |-> "dict", d |-> d]

Digits == "0123456789"
IsDigit(c) == \E i \in 1..10 : CharAt(Digits, i) = c
DigitVal(c) == (CHOOSE i \in 1..10 : CharAt(Digits, i) = c) - 1

\* s * n
RECURSIVE Repeat(_, _)
Repeat(s, n) ==
    IF n <= 0 THEN ""
    ELSE IF n = 1 THEN s
    ELSE Repeat(s, n \div 2) \o Repeat(s, n - n \div 2)

\* str(n) for a natural number n.
RECURSIVE NatToStr(_)
NatToStr(n) ==
    IF n < 10 THEN CharAt(Digits, n + 1)
    ELSE NatToStr(n \div 10) \o CharAt(Digits, (n % 10) + 1)

IntToStr(n) == IF n < 0 THEN "-" \o NatToStr(0 - n) ELSE NatToStr(n)

\* The fraction digits of repr(float): three digits, trailing zeros dropped,
\* at least one digit kept.
FracToStr(f) ==
    IF f = 0 THEN "0"
    ELSE IF f % 100 = 0 THEN NatToStr(f \div 100)
    ELSE IF f % 10 = 0 THEN (IF f < 100 THEN "0" ELSE "") \o NatToStr(f \div 10)
    ELSE (IF f < 10 THEN "00" ELSE IF f < 100 THEN "0" ELSE "") \o NatToStr(f)

\* str(x) for the float m/1000.
FloatToStr(m) ==
    LET a == IF m < 0 THEN 0 - m ELSE m
    IN  (IF m < 0 THEN "-" ELSE "") \o NatToStr(a \div 1000) \o "." \o FracToStr(a % 1000)

\* repr(v) and str(v): they differ on str alone, which repr quotes.  A list or
\* dict shows the repr of its members.
RECURSIVE PyRepr(_, _)
PyRepr(v, quote) ==
    CASE v.t = "str" -> IF quote THEN "'" \o v.s \o "'" ELSE v.s
      [] v.t = "null" -> "None"
      [] v.t = "bool" -> IF v.b THEN "True" ELSE "False"
      [] v.t = "int" -> IntToStr(v.n)
      [] v.t = "pow10" -> "1" \o Repeat("0", v.k)
      [] v.t = "float" -> FloatToStr(v.m)
      [] v.t = "nan" -> "nan"
      [] v.t = "inf" -> "inf"
      [] v.t = "ninf" -> "-inf"
      [] v.t = "list" ->
            LET Join[i \in 0..Len(v.l)] ==
                    IF i = 0 THEN ""
                    ELSE Join[i - 1] \o (IF i > 1 THEN ", " ELSE "") \o PyRepr(v.l[i], TRUE)
            IN  "[" \o Join[Len(v.l)] \o "]"
      [] v.t = "dict" ->
            LET Join[i \in 0..Len(v.d)] ==
                    IF i = 0 THEN ""
                    ELSE Join[i - 1] \o (IF i > 1 THEN ", " ELSE "")
                         \o "'" \o v.d[i][1] \o "': " \o PyRepr(v.d[i][2], TRUE)
            IN  "{" \o Join[Len(v.d)] \o "}"

PyStr(v) == PyRepr(v, FALSE)

\* bool(v), the truth value of `if v`.
PyTruthy(v) ==
    CASE v.t = "str" -> v.s # ""
      [] v.t = "null" -> FALSE
      [] v.t = "bool" -> v.b
      [] v.t = "int" -> v.n # 0
      [] v.t = "float" -> v.m # 0
      [] v.t = "list" -> v.l # <<>>
      [] v.t = "dict" -> v.d # <<>>
      [] OTHER -> TRUE

\* data.get(key, default)
DataGet(data, key, default) ==
    IF data[key].t = "missing" THEN default ELSE data[key]

(***************************************************************************)
(* float(x).  The result is tagged by k: "fin" with m, the value in        *)
(* thousandths; "huge" and "nhuge", a finite value of magnitude at least   *)
(* HugeFrom; "nan", "inf", "ninf"; or the exception raised.                *)
(***************************************************************************)
TitleMax == 80
PriceMinCents == 99
PriceMaxCents == 99999999
DefaultPriceMilli == 9990
HugeFrom == 1000000      \* first magnitude held as "huge": above the maximum price
FloatMaxExp10 == 308     \* 10^308 is a float, 10^309 is not

Fin(m) == [k |-> "fin", m |-> m]
Special(k) == [k |-> k]

RECURSIVE DigitsToNat(_)
DigitsToNat(s) ==
    IF Len(s) = 0 THEN 0
    ELSE DigitsToNat(SubSeq(s, 1, Len(s) - 1)) * 10 + DigitVal(CharAt(s, Len(s)))

AllDigits(s) == \A i \in 1..Len(s) : IsDigit(CharAt(s, i))

\* The digits without their leading zeros (one digit is always kept).
StripZeros(s) ==
    LET nz == {i \in 1..Len(s) : CharAt(s, i) # "0"}
    IN  IF s = "" THEN ""
        ELSE IF nz = {} THEN "0"
        ELSE SubSeq(s, CHOOSE i \in nz : \A j \in nz : i <= j, Len(s))

\* The position of the decimal point, or one past the end without one.
DotAt(body) ==
    IF \E i \in 1..Len(body) : CharAt(body, i) = "."
    THEN Min({i \in 1..Len(body) : CharAt(body, i) = "."})
    ELSE Len(body) + 1

\* The value of the digits `whole` with the fraction digits `fp`.
FloatOfDigits(neg, whole, fp) ==
    IF Len(whole) > 6 THEN (IF neg THEN Special("nhuge") ELSE Special("huge"))
    ELSE IF neg
         THEN Fin(0 - (DigitsToNat(whole) * 1000 + DigitsToNat(SubSeq(fp \o "000", 1, 3))))
         ELSE Fin(DigitsToNat(whole) * 1000 + DigitsToNat(SubSeq(fp \o "000", 1, 3)))

\* The integer part `ip` and the fraction part `fp` of a number.
FloatOfParts(neg, ip, fp) ==
    IF Len(ip) + Len(fp) = 0 \/ ~AllDigits(ip) \/ ~AllDigits(fp)
    THEN Special("ValueError")
    ELSE FloatOfDigits(neg, StripZeros(ip), fp)

\* The text after the sign.
FloatOfBody(neg, body, lower) ==
    IF lower = "nan" THEN Special("nan")
    ELSE IF lower \in {"inf", "infinity"}
         THEN (IF neg THEN Special("ninf") ELSE Special("inf"))
    ELSE FloatOfParts(neg, SubSeq(body, 1, DotAt(body) - 1),
                      SubSeq(body, DotAt(body) + 1, Len(body)))

\* The text without its surrounding whitespace.
FloatOfStripped(t) ==
    IF Len(t) > 0 /\ CharAt(t, 1) \in {"-", "+"}
    THEN FloatOfBody(CharAt(t, 1) = "-", SubSeq(t, 2, Len(t)), Lower(SubSeq(t, 2, Len(t))))
    ELSE FloatOfBody(FALSE, t, Lower(t))

\* float(s) for a str: surrounding whitespace is dropped; then an optional
\* sign and nan, inf or infinity in any case, or digits with an optional
\* fraction.  The enumerated strings hold at most three fraction digits, no
\* exponent and no digit-group underscore.
FloatOfStr(s) == FloatOfStripped(Strip(s))

PyFloat(v) ==
    CASE v.t = "float" -> Fin(v.m)
      [] v.t = "nan" -> Special("nan")
      [] v.t = "inf" -> Special("inf")
      [] v.t = "ninf" -> Special("ninf")
      [] v.t = "bool" -> Fin(IF v.b THEN 1000 ELSE 0)
      [] v.t = "int" ->
            IF v.n >= HugeFrom THEN Special("huge")
            ELSE IF v.n <= 0 - HugeFrom THEN Special("nhuge")
            ELSE Fin(v.n * 1000)
      [] v.t = "pow10" ->
            IF v.k > FloatMaxExp10 THEN Special("OverflowError") ELSE Special("huge")
      [] v.t = "str" -> FloatOfStr(v.s)
      [] OTHER -> Special("TypeError")

\* round(x, 2) of the float m/1000, in hundredths.  A float is rounded by its
\* binary value: a decimal tie is a tie of the float only when m/1000 is a
\* binary fraction (m a multiple of 125), and then goes to the even
\* hundredth; otherwise the float lies below or above the decimal, which
\* `below` tells.
Round2(m, below) ==
    LET c == m \div 10
        r == m % 10
    IN  IF r < 5 THEN c
        ELSE IF r > 5 THEN c + 1
        ELSE IF m % 125 = 0 THEN (IF c % 2 = 0 THEN c ELSE c + 1)
        ELSE IF below THEN c ELSE c + 1

\* max(0.99, min(999999.99, round(price, 2))), in hundredths.  min and max
\* return their first argument unless the other compares smaller (larger),
\* and every comparison with nan is false.
ClampRound(f, below) ==
    CASE f.k = "fin" ->
            LET r == Round2(f.m, below)
                lo == IF r < PriceMaxCents THEN r ELSE PriceMaxCents
            IN  IF lo > PriceMinCents THEN lo ELSE PriceMinCents
      [] f.k \in {"huge", "inf", "nan"} -> PriceMaxCents
      [] f.k \in {"nhuge", "ninf"} -> PriceMinCents

(***************************************************************************)
(* ai_analyzer.py: _normalize_ai_response.                                 *)
(***************************************************************************)
valid_conditions ==
    {"NEW", "LIKE_NEW", "NEW_OTHER", "NEW_WITH_DEFECTS",
     "CERTIFIED_REFURBISHED", "EXCELLENT_REFURBISHED", "VERY_GOOD_REFURBISHED",
     "GOOD_REFURBISHED", "SELLER_REFURBISHED", "USED_EXCELLENT", "USED_VERY_GOOD",
     "USED_GOOD", "USED_ACCEPTABLE", "PRE_OWNED_EXCELLENT", "PRE_OWNED_FAIR",
     "FOR_PARTS_OR_NOT_WORKING"}

invalid_to_valid ==
    << <<"VERY_GOOD", "USED_VERY_GOOD">>,
       <<"GOOD", "USED_GOOD">>,
       <<"ACCEPTABLE", "USED_ACCEPTABLE">>,
       <<"EXCELLENT", "USED_EXCELLENT">>,
       <<"FAIR", "PRE_OWNED_FAIR">>,
       <<"NEW_WITH_TAGS", "NEW">>,
       <<"NEW_WITHOUT_TAGS", "NEW">> >>

\* A plausible slip: the title is trimmed before it is cut, not after.
NormalizeTitleTrimFirst(data) ==
    LET title == Truncate(Strip(PyStr(DataGet(data, "title", JStr("Untitled Item")))),
                          TitleMax)
    IN  IF title = "" THEN "Item for Sale" ELSE title

NormalizeTitle(data) ==
    LET title == Strip(Truncate(PyStr(DataGet(data, "title", JStr("Untitled Item"))),
                                TitleMax))
    IN  IF title = "" THEN "Item for Sale" ELSE title

NormalizeDescription(data) ==
    LET description == Strip(PyStr(DataGet(data, "description", JStr(""))))
    IN  IF description = ""
        THEN "<p>Item in good condition. Please see photos for details.</p>"
        ELSE description

\* The try block: the price in hundredths, or the exception that leaves it.
\* ValueError and TypeError are caught and give 9.99.
PriceOf(f, below) ==
    CASE f.k \in {"ValueError", "TypeError"} ->
            [raised |-> FALSE, cents |-> DefaultPriceMilli \div 10]
      [] f.k = "OverflowError" -> [raised |-> TRUE, exc |-> f.k]
      [] OTHER -> [raised |-> FALSE, cents |-> ClampRound(f, below)]

NormalizePrice(data, below) ==
    PriceOf(PyFloat(DataGet(data, "price", JFloat(DefaultPriceMilli))), below)

\* A plausible slip: the keyword inference is skipped and the cleaned string
\* is kept when no alias matches.
NormalizeConditionUnchecked(data) ==
    LET cond == Replace(Upper(PyStr(DataGet(data, "condition", JStr("USED_VERY_GOOD")))),
                        " ", "_")
    IN  IF cond \in PairKeys(invalid_to_valid) THEN PairGet(invalid_to_valid, cond, cond)
        ELSE cond

NormalizeCondition(data) ==
    LET cond == Replace(Upper(PyStr(DataGet(data, "condition", JStr("USED_VERY_GOOD")))),
                        " ", "_")
    IN  IF cond \in PairKeys(invalid_to_valid) THEN PairGet(invalid_to_valid, cond, cond)
        ELSE IF cond \notin valid_conditions THEN
            IF Contains("NEW", cond) THEN "NEW"
            ELSE IF Contains("LIKE", cond) /\ Contains("NEW", cond) THEN "LIKE_NEW"
            ELSE IF Contains("EXCELLENT", cond) THEN "USED_EXCELLENT"
            ELSE IF Contains("VERY", cond) /\ Contains("GOOD", cond) THEN "USED_VERY_GOOD"
            ELSE IF Contains("GOOD", cond) THEN "USED_GOOD"
            ELSE IF Contains("ACCEPTABLE", cond) \/ Contains("FAIR", cond)
                 THEN "USED_ACCEPTABLE"
            ELSE "USED_VERY_GOOD"
        ELSE cond

\* d[k] = v on an insertion-ordered dict: a key already there keeps its place.
PairPut(pairs, k, v) ==
    IF k \in PairKeys(pairs)
    THEN [i \in DOMAIN pairs |-> IF pairs[i][1] = k THEN <<k, v>> ELSE pairs[i]]
    ELSE Append(pairs, <<k, v>>)

\* [str(v).strip() for v in value if v and str(v).strip()]
StrippedValues(l) ==
    LET Keep[i \in 0..Len(l)] ==
            IF i = 0 THEN <<>>
            ELSE IF PyTruthy(l[i]) /\ Strip(PyStr(l[i])) # ""
                 THEN Append(Keep[i - 1], JStr(Strip(PyStr(l[i]))))
                 ELSE Keep[i - 1]
    IN  Keep[Len(l)]

\* The values kept for one aspect.
AspectValuesOf(value) ==
    IF value.t = "list" THEN StrippedValues(value.l)
    ELSE IF PyTruthy(value) /\ Strip(PyStr(value)) # ""
         THEN <<JStr(Strip(PyStr(value)))>>
         ELSE <<>>

NormalizeAspects(data) ==
    LET got == DataGet(data, "aspects", JDict(<<>>))
        items == IF got.t = "dict" THEN got.d ELSE <<>>
        Loop[i \in 0..Len(items)] ==
            IF i = 0 THEN <<>>
            ELSE LET key == items[i][1]
                     value == items[i][2]
                 IN  IF value.t = "null" THEN Loop[i - 1]
                     ELSE IF AspectValuesOf(value) # <<>>
                          THEN PairPut(Loop[i - 1], Strip(key), JList(AspectValuesOf(value)))
                          ELSE Loop[i - 1]
    IN  Loop[Len(items)]

NormalizeKeywords(data) == Strip(PyStr(DataGet(data, "category_keywords", JStr(""))))

Returned(v) == [status |-> "returned", value |-> v]
Raised(e) == [status |-> "raised", exc |-> e]

\* The record returned for a price, or the exception the price raised.
NormalizedWith(price, data) ==
    IF price.raised THEN Raised(price.exc)
    ELSE Returned(
        [ title |-> JStr(NormalizeTitle(data)),
          description |-> JStr(NormalizeDescription(data)),
          price |-> JFloat(price.cents * 10),
          condition |-> JStr(NormalizeCondition(data)),
          aspects |-> JDict(NormalizeAspects(data)),
          category_keywords |-> JStr(NormalizeKeywords(data)) ])

\* `below` is the one fact about the binary value of the price that the
\* model does not compute (see Round2).
normalize_ai_response(data, below) == NormalizedWith(NormalizePrice(data, below), data)

(***************************************************************************)
(* Inputs of the category_rules calls.                                     *)
(***************************************************************************)
CondWords == {"new", "like", "very", "good", "Good", "excellent", "fair", "mint"}
CondSeps == {" ", "_", "-"}

\* Condition strings of n words joined by separators.
RECURSIVE Composed(_)
Composed(n) ==
    IF n <= 1 THEN CondWords
    ELSE {c \o s \o w : c \in Composed(n - 1), s \in CondSeps, w \in CondWords}

TableKeys ==
    UNION {PairKeys(ITEM_TYPE_RULES[i][2].condition_mapping) : i \in DOMAIN ITEM_TYPE_RULES}

Conditions ==
    UNION {Composed(n) : n \in 1..MaxCondWords}
        \cup TableKeys \cup {"", " Like New ", "VERY_GOOD", "Brand New", "used"}

ItemTypes == {"clothing", "kitchenware", "mug", "Plate", " crockery ", "shoes",
              "books", "electronics", "widget"}

AspectValues(name) ==
    CASE name \in {"Color", "Colour"} -> {"Red", "Green"}
      [] name = "Size" -> {"M", "L"}
      [] OTHER -> {"Acme"}

\* Lists of at most n values drawn from vals.
RECURSIVE ValueLists(_, _)
ValueLists(vals, n) ==
    IF n = 0 THEN {<<>>}
    ELSE ValueLists(vals, n - 1)
         \cup {Append(l, v) : l \in {x \in ValueLists(vals, n - 1) : Len(x) = n - 1},
                              v \in vals}

\* An aspect is either absent, <<FALSE, <<>>>>, or holds a list, <<TRUE, list>>.
AspectOptions(name) ==
    {<<TRUE, l>> : l \in ValueLists(AspectValues(name), MaxVals)} \cup {<<FALSE, <<>>>>}

\* The dict holding the keys whose option is a list.
DictOf(opt) ==
    [k \in {n \in DOMAIN opt : opt[n][1]} |-> opt[k][2]]

AspectInputs ==
    {DictOf([Color |-> c, Colour |-> u, Size |-> z, Brand |-> b]) :
        c \in AspectOptions("Color"), u \in AspectOptions("Colour"),
        z \in AspectOptions("Size"), b \in AspectOptions("Brand")}

AspectItemTypes == {"clothing", "Mug", "shoes"}

(***************************************************************************)
(* category_rules.py: one call of either function.                         *)
(***************************************************************************)
InitRules ==
    /\ RulesAlone
    /\ pc = "start"
    /\ result = <<>>
    /\ \/ /\ call = "normalize_condition_for_type"
          /\ condition \in Conditions
          /\ item_type \in ItemTypes
          /\ aspects_arg = EmptyDict
          /\ aspects = aspects_arg
       \/ /\ call = "apply_required_aspects"
          /\ condition = ""
          /\ item_type \in AspectItemTypes
          /\ aspects_arg \in AspectInputs
          /\ aspects = aspects_arg

NormalizeConditionForType ==
    /\ pc = "start"
    /\ call = "normalize_condition_for_type"
    /\ result' = normalize_condition_for_type(condition, item_type)
    /\ pc' = "done"
    /\ UNCHANGED <<call, condition, item_type, aspects_arg, aspects, exceptRules>>

\* The dict passed in is mutated and returned: `aspects` holds it afterwards
\* and `result` is the same object.
ApplyRequiredAspects ==
    /\ pc = "start"
    /\ call = "apply_required_aspects"
    /\ aspects' = apply_required_aspects(aspects, item_type)
    /\ result' = aspects'
    /\ pc' = "done"
    /\ UNCHANGED <<call, condition, item_type, aspects_arg, exceptRules>>

NextRules == NormalizeConditionForType \/ ApplyRequiredAspects

SpecRules == InitRules /\ [][NextRules]_vars

(***************************************************************************)
(* Inputs of the normalizer: each field ranges over its own values while   *)
(* the other fields hold one of the base records.                          *)
(***************************************************************************)
MaxAspectKeys == 2   \* keys in a raw aspects dict

Fields == {"title", "description", "price", "condition", "aspects", "category_keywords"}

TitleInputs ==
    {Missing, JNull, JBool(FALSE), JInt(0), JFloat(12500), JList(<<JStr("a")>>),
     JStr(""), JStr("   "), JStr("Blue Mug"), JStr("  padded\t"),
     JStr(Repeat("x", TitleMax + 20)),
     JStr(Repeat("a", TitleMax - 1) \o " b"),
     JStr(Repeat(" ", TitleMax) \o "late")}

DescriptionInputs ==
    {Missing, JNull, JInt(0), JList(<<>>), JStr(""), JStr(" \n"), JStr(" <p>Nice</p> ")}

PriceFloats ==
    {0 - 5000, 0 - 15, 0, 4, 5, 125, 375, 985, 989, 990, 994, 995, 1005, 2675,
     12340, 12345, 999999990, 999999994, 999999995, 999999999}

PriceInputs ==
    {Missing, JNull, JBool(TRUE), JBool(FALSE), JNaN, JInf, JNegInf,
     JList(<<JInt(1)>>), JDict(<<>>)}
    \cup {JFloat(m) : m \in PriceFloats}
    \cup {JInt(n) : n \in {0 - 5, 0, 1, 20, HugeFrom - 1, HugeFrom}}
    \cup {JPow10(k) : k \in {9, FloatMaxExp10, FloatMaxExp10 + 1}}
    \cup {JStr(p) : p \in {"12.5", " 12.5 ", "-3", "+7", "0.985", ".5", "5.", "007",
                           "", ".", "abc", "1.2.3", "12,50", "nan", "NaN", "inf",
                           "-inf", "Infinity", "1000000000000", "-1000000000000"}}

ConditionInputs ==
    {Missing, JNull, JBool(TRUE), JFloat(12500), JList(<<JStr("new")>>)}
    \cup {JStr(c) : c \in Conditions \cup valid_conditions \cup PairKeys(invalid_to_valid)
                          \cup {"Used Excellent", "like  new", "RENEWED", "pre-owned", "mint-like",
                                "Fair condition", "New With Tags"}}

AspectKeys == {"Brand", " Brand ", ""}
AspectRawValues ==
    {JNull, JStr(""), JStr(" Red "), JInt(0), JInt(5), JBool(TRUE), JList(<<>>),
     JList(<<JStr(" M "), JStr(" "), JNull, JInt(0), JFloat(7500), JList(<<JStr("y")>>)>>)}

\* Dicts of n distinct keys, in every insertion order.
RECURSIVE AspectDicts(_)
AspectDicts(n) ==
    IF n = 0 THEN {<<>>}
    ELSE {Append(d, <<k, v>>) : d \in AspectDicts(n - 1),
                                k \in AspectKeys, v \in AspectRawValues}

DistinctKeys(d) == \A i, j \in DOMAIN d : d[i][1] = d[j][1] => i = j

AspectsInputs ==
    {Missing, JNull, JStr("x"), JList(<<JInt(1)>>)}
    \cup {JDict(d) : d \in {x \in UNION {AspectDicts(n) : n \in 0..MaxAspectKeys} :
                               DistinctKeys(x)}}

KeywordInputs == {Missing, JNull, JStr(""), JStr(" mug ceramic "), JInt(3)}

FieldInputs(f) ==
    CASE f = "title" -> TitleInputs
      [] f = "description" -> DescriptionInputs
      [] f = "price" -> PriceInputs
      [] f = "condition" -> ConditionInputs
      [] f = "aspects" -> AspectsInputs
      [] f = "category_keywords" -> KeywordInputs

BaseRecords ==
    { [f \in Fields |-> Missing],
      [f \in Fields |-> JNull],
      [ title |-> JStr("Blue Mug"), description |-> JStr("<p>Nice</p>"),
        price |-> JFloat(12500), condition |-> JStr("good"),
        aspects |-> JDict(<< <<"Brand", JList(<<JStr("Acme")>>)>> >>),
        category_keywords |-> JStr("mug") ] }

\* Values of the wrong type, tried in every field.
HostileInputs ==
    {JNull, JBool(TRUE), JInt(0), JNaN, JPow10(FloatMaxExp10 + 1), JStr(" new "),
     JList(<<JStr("new")>>), JDict(<< <<"k", JInt(1)>> >>)}

RawRecords ==
    UNION {{[b EXCEPT ![f] = v] : b \in BaseRecords, v \in FieldInputs(f) \cup HostileInputs} :
           f \in Fields}

(***************************************************************************)
(* ai_analyzer.py: a call of _normalize_ai_response on a raw record, then  *)
(* a call on the record it returned.                                       *)
(***************************************************************************)
InitNormalize ==
    /\ NormAlone
    /\ raw_data \in RawRecords
    /\ tie_below \in BOOLEAN
    /\ normalized = <<>>
    /\ renormalized = <<>>
    /\ npc = "start"

NormalizeReturns ==
    /\ npc = "start"
    /\ \E r \in {normalize_ai_response(raw_data, tie_below)} :
        /\ r.status = "returned"
        /\ normalized' = r
    /\ npc' = "returned"
    /\ UNCHANGED <<raw_data, tie_below, renormalized, exceptNorm>>

NormalizeRaises ==
    /\ npc = "start"
    /\ \E r \in {normalize_ai_response(raw_data, tie_below)} :
        /\ r.status = "raised"
        /\ normalized' = r
    /\ npc' = "raised"
    /\ UNCHANGED <<raw_data, tie_below, renormalized, exceptNorm>>

NormalizeAgain ==
    /\ npc = "returned"
    /\ renormalized' = normalize_ai_response(normalized.value, tie_below)
    /\ npc' = "again"
    /\ UNCHANGED <<raw_data, tie_below, normalized, exceptNorm>>

NextNormalize == NormalizeReturns \/ NormalizeRaises \/ NormalizeAgain

SpecNormalize == InitNormalize /\ [][NextNormalize]_vars


(***************************************************************************)
(* inventory_flow.py: the validation of the payload builders.              *)
(***************************************************************************)
\* build_inventory_item_payload raises ValueError on an empty image_urls.
build_inventory_item_payload_raises(image_urls) == image_urls = <<>>

\* A plausible slip: the merchant location key is not checked.
build_offer_payload_raises_unlocated(cat_arg, e) ==
    LET cat == IF cat_arg # "" THEN cat_arg ELSE e.DEFAULT_CATEGORY_ID
    IN  \/ cat = ""
        \/ e.PAYMENT_POLICY_ID = ""
        \/ e.RETURN_POLICY_ID = ""
        \/ e.FULFILLMENT_POLICY_ID = ""

\* build_offer_payload raises ValueError when no category is given and no
\* default is set, when a policy id is empty or when the location key is empty.
build_offer_payload_raises(cat_arg, e) ==
    LET cat == IF cat_arg # "" THEN cat_arg ELSE e.DEFAULT_CATEGORY_ID
    IN  \/ cat = ""
        \/ e.PAYMENT_POLICY_ID = ""
        \/ e.RETURN_POLICY_ID = ""
        \/ e.FULFILLMENT_POLICY_ID = ""
        \/ e.MERCHANT_LOCATION_KEY = ""

(***************************************************************************)
(* main.py: the routes.  Each action runs a handler up to and including    *)
(* its next call of the vision analyzer or of eBay; the outcome of such a  *)
(* call is the environment's choice.                                       *)
(***************************************************************************)
MaxRequests == 2   \* requests one behaviour handles

Environments ==
    [ PAYMENT_POLICY_ID : {"", "pay-1"},
      RETURN_POLICY_ID : {"", "ret-1"},
      FULFILLMENT_POLICY_ID : {"", "ful-1"},
      MERCHANT_LOCATION_KEY : {"", "loc-1"},
      DEFAULT_CATEGORY_ID : {"", "15687"},
      FORCE_DRAFTS : BOOLEAN ]

\* At most one of the required settings is missing, or all of them are.
EnvInputs ==
    {e \in Environments :
        LET missing == Cardinality({k \in {"PAYMENT_POLICY_ID", "RETURN_POLICY_ID",
                                           "FULFILLMENT_POLICY_ID", "MERCHANT_LOCATION_KEY"} :
                                       e[k] = ""})
        IN  missing <= 1 \/ missing = 4}

\* What the vision model does with a request: whether it can be reached, the
\* text it replies, and the record the span cut out of the text decodes to
\* (decodes is FALSE when json.loads raises).
Reply(reachable, content, decodes, data) ==
    [reachable |-> reachable, content |-> content, decodes |-> decodes, data |-> data]

\* The record decoded from {}.
EmptyRecord == [f \in Fields |-> Missing]

NoReply == Reply(FALSE, "", FALSE, EmptyRecord)

AnalyzerReplies ==
    { Reply(FALSE, "", FALSE, EmptyRecord),
      Reply(TRUE, "", FALSE, EmptyRecord),
      Reply(TRUE, "I cannot help with that.", FALSE, EmptyRecord),
      Reply(TRUE, "} {", FALSE, EmptyRecord),
      Reply(TRUE, "{ title", FALSE, EmptyRecord),
      Reply(TRUE, "Here: {title} ok", FALSE, EmptyRecord),
      Reply(TRUE, "{price: 1e999}", TRUE,
            [EmptyRecord EXCEPT !.price = JPow10(FloatMaxExp10 + 1)]),
      Reply(TRUE, "Listing: {} done", TRUE, EmptyRecord),
      Reply(TRUE, "{condition: like-new}", TRUE,
            [EmptyRecord EXCEPT !.condition = JStr("like-new")]),
      Reply(TRUE, "{condition: VERY_GOOD}", TRUE,
            [EmptyRecord EXCEPT !.condition = JStr("VERY_GOOD")]) }

\* content.find(c) and content.rfind(c)
Find(s, c) ==
    IF \E i \in 1..Len(s) : CharAt(s, i) = c
    THEN (CHOOSE i \in 1..Len(s) :
              CharAt(s, i) = c /\ \A j \in 1..(i - 1) : CharAt(s, j) # c) - 1
    ELSE -1

RFind(s, c) ==
    IF \E i \in 1..Len(s) : CharAt(s, i) = c
    THEN (CHOOSE i \in 1..Len(s) :
              CharAt(s, i) = c /\ \A j \in (i + 1)..Len(s) : CharAt(s, j) # c) - 1
    ELSE -1

\* start_idx == -1 or end_idx <= start_idx
NoJsonSpan(content) ==
    Find(content, "{") = -1 \/ RFind(content, "}") + 1 <= Find(content, "{")

\* The exception raised inside the try block of the analysis, "" when none.
RaisedInAnalysis(reply) ==
    IF ~reply.reachable THEN "OpenAIError"
    ELSE IF NoJsonSpan(reply.content) THEN "AIAnalysisError"
    ELSE IF ~reply.decodes THEN "JSONDecodeError"
    ELSE IF normalize_ai_response(reply.data, FALSE).status = "raised"
         THEN normalize_ai_response(reply.data, FALSE).exc
    ELSE ""

\* A plausible slip: the except clauses let the exception through.
ExceptClausesMissing(exc) == exc

\* The three except clauses: each raises AIAnalysisError.
ExceptClauses(exc) ==
    CASE exc = "" -> ""
      [] exc = "OpenAIError" -> "AIAnalysisError"
      [] exc = "JSONDecodeError" -> "AIAnalysisError"
      [] OTHER -> "AIAnalysisError"

\* The exception that leaves the analysis, "" when it returns a listing.
analyze_multiple_images_for_listing(reply) == ExceptClauses(RaisedInAnalysis(reply))

NoForm ==
    [images |-> "", category |-> "", price |-> "", json |-> FALSE, offer |-> 0,
     reply |-> NoReply]
OfferIds == 0..MaxRequests   \* 0 is an offer made before the process started

InitService ==
    /\ ServiceAlone
    /\ env \in EnvInputs
    /\ route = ""
    /\ form = NoForm
    /\ lpc = "ready"
    /\ category_id = ""
    /\ calls = <<>>
    /\ status = 0
    /\ session = {}
    /\ published = {}
    /\ nreq = 0
    /\ failures = {}

\* A call sent to eBay; `ok` tells whether eBay answered it with success.
EbayCall(name, ok) == [call |-> name, ok |-> ok]

\* The upsert of an inventory item, with the condition its payload carries.
UpsertCall(payload_condition, ok) ==
    [call |-> "inventory_item", ok |-> ok, condition |-> payload_condition]

\* ai_result: what the analysis returned for the reply.
AiResult(reply) == normalize_ai_response(reply.data, FALSE).value

\* condition: str = "VERY_GOOD"
DefaultPayloadCondition == "VERY_GOOD"

\* A response that reports no failure.
Respond(code) == status' = code /\ lpc' = "responded" /\ UNCHANGED failures

\* A response that reports a failure.  `why` is its cause: the request's
\* input ("validation"), the vision analysis ("analysis"), the marketplace
\* ("upstream"), a setting ("configuration"), the token ("authorization",
\* which a missing credential and a refused refresh both raise) or an
\* exception only the handler's last except clause catches ("unexpected").
Fail(r, code, why) ==
    /\ status' = code
    /\ lpc' = "responded"
    /\ failures' = failures \cup {<<r, why, code>>}

\* The handler goes on to its next step.
Continue(step) == status' = 0 /\ lpc' = step /\ UNCHANGED failures

Receive(r, f) ==
    /\ lpc = "ready"
    /\ nreq < MaxRequests
    /\ nreq' = nreq + 1
    /\ route' = r
    /\ form' = f

\* upload_and_create_listing, steps 1 and 2: the images are validated.
UploadValidate ==
    \E images \in {"none", "invalid", "ok"}, cat \in {"", "9355"},
       price \in {"", "5.00", "abc"}, reply \in AnalyzerReplies :
        /\ Receive("upload", [NoForm EXCEPT !.images = images, !.category = cat,
                                            !.price = price,
                                            !.reply = IF images = "ok" THEN reply
                                                      ELSE NoReply])
        /\ IF images # "ok" THEN Fail("upload", 400, "validation")
           ELSE Continue("analyze")
        /\ UNCHANGED <<env, category_id, calls, session, published, exceptService>>

\* Step 3: the images are analyzed; AIAnalysisError answers 500, and so does
\* the handler's last except clause for any other exception.
UploadAnalyze ==
    \E exc \in {analyze_multiple_images_for_listing(form.reply)} :
        /\ lpc = "analyze"
        /\ IF exc = "" THEN Continue("pictures")
           ELSE IF exc = "AIAnalysisError" THEN Fail("upload", 500, "analysis")
           ELSE Fail("upload", 500, "unexpected")
        /\ UNCHANGED <<env, route, form, category_id, calls, session, published, nreq,
                       exceptService>>

\* Steps 4 to 6: the token, the picture upload, the category and the
\* overrides.  An exception that is no EPSError reaches the handler's last
\* except clause, which answers 500.
UploadPictures ==
    \E token_ok, eps_ok \in BOOLEAN, best \in {"20693", "15687"} :
        /\ lpc = "pictures"
        /\ IF ~token_ok THEN Fail("upload", 500, "authorization") /\ UNCHANGED <<calls, category_id>>
           ELSE /\ calls' = Append(calls, EbayCall("upload_picture", eps_ok))
                /\ IF ~eps_ok THEN Fail("upload", 500, "upstream") /\ UNCHANGED category_id
                   ELSE /\ category_id' =
                              IF form.category # "" THEN form.category
                              ELSE IF env.DEFAULT_CATEGORY_ID # "" THEN env.DEFAULT_CATEGORY_ID
                              ELSE best
                        /\ IF form.price # "" /\ FloatOfStr(form.price).k = "ValueError"
                           THEN Fail("upload", 500, "validation")
                           ELSE Continue("inventory")
        /\ UNCHANGED <<env, route, form, session, published, nreq, exceptService>>

\* A plausible slip: the handler goes on to the offer whatever the upsert
\* answered.
UploadInventoryUnchecked ==
    \E upsert_ok \in BOOLEAN :
        /\ lpc = "inventory"
        /\ calls' = Append(calls, UpsertCall(AiResult(form.reply).condition.s, upsert_ok))
        /\ Continue("offer")
        /\ UNCHANGED <<env, route, form, category_id, session, published, nreq,
                       exceptService>>

\* Step 8: the inventory item is built and upserted; EbayError answers 502.
UploadInventory ==
    \E upsert_ok \in BOOLEAN :
        /\ lpc = "inventory"
        /\ IF build_inventory_item_payload_raises(<<"url">>)
           THEN Fail("upload", 500, "validation") /\ UNCHANGED calls
           ELSE /\ calls' = Append(calls, UpsertCall(AiResult(form.reply).condition.s,
                                                     upsert_ok))
                /\ IF upsert_ok THEN Continue("offer") ELSE Fail("upload", 502, "upstream")
        /\ UNCHANGED <<env, route, form, category_id, session, published, nreq,
                       exceptService>>

\* A plausible slip: the pending listing is stored before eBay's answer to
\* the offer is known.
UploadOfferStoredEarly ==
    \E create_ok \in BOOLEAN :
        /\ lpc = "offer"
        /\ IF build_offer_payload_raises(category_id, env)
           THEN Fail("upload", 500, "configuration") /\ UNCHANGED <<calls, session>>
           ELSE /\ calls' = Append(calls, EbayCall("create_offer", create_ok))
                /\ session' = {nreq}
                /\ IF create_ok THEN Respond(302) ELSE Fail("upload", 502, "upstream")
        /\ UNCHANGED <<env, route, form, category_id, published, nreq, exceptService>>

\* Steps 9 and 10: the offer is built and created, then the pending listing
\* is stored and the preview page answered.
UploadOffer ==
    \E create_ok \in BOOLEAN :
        /\ lpc = "offer"
        /\ IF build_offer_payload_raises(category_id, env)
           THEN Fail("upload", 500, "configuration") /\ UNCHANGED <<calls, session>>
           ELSE /\ calls' = Append(calls, EbayCall("create_offer", create_ok))
                /\ IF create_ok THEN Respond(302) /\ session' = {nreq}
                   ELSE Fail("upload", 502, "upstream") /\ UNCHANGED session
        /\ UNCHANGED <<env, route, form, category_id, published, nreq, exceptService>>

\* api_create_listing up to the category check.
ApiCreateValidate ==
    \E json \in BOOLEAN, cat \in {"", "9355"}, price \in {"5.00", "abc"},
       token_ok \in BOOLEAN :
        /\ Receive("api_create", [NoForm EXCEPT !.json = json, !.category = cat,
                                                !.price = price])
        /\ category_id' = IF cat # "" THEN cat ELSE env.DEFAULT_CATEGORY_ID
        /\ IF ~json THEN Fail("api_create", 400, "validation")
           ELSE IF ~token_ok THEN Fail("api_create", 500, "authorization")
           ELSE IF FloatOfStr(price).k = "ValueError"
                THEN Fail("api_create", 500, "validation")
           ELSE IF category_id' = "" THEN Fail("api_create", 400, "validation")
           ELSE Continue("api_inventory")
        /\ UNCHANGED <<env, calls, session, published, exceptService>>

ApiCreateInventory ==
    \E upsert_ok \in BOOLEAN :
        /\ lpc = "api_inventory"
        /\ IF build_inventory_item_payload_raises(<<"url">>)
           THEN Fail("api_create", 500, "validation") /\ UNCHANGED calls
           ELSE /\ calls' = Append(calls, UpsertCall(DefaultPayloadCondition, upsert_ok))
                /\ IF upsert_ok THEN Continue("api_offer") ELSE Fail("api_create", 502, "upstream")
        /\ UNCHANGED <<env, route, form, category_id, session, published, nreq,
                       exceptService>>

ApiCreateOffer ==
    \E create_ok \in BOOLEAN :
        /\ lpc = "api_offer"
        /\ IF build_offer_payload_raises(category_id, env)
           THEN Fail("api_create", 500, "configuration") /\ UNCHANGED calls
           ELSE /\ calls' = Append(calls, EbayCall("create_offer", create_ok))
                /\ IF create_ok THEN Respond(201) ELSE Fail("api_create", 502, "upstream")
        /\ UNCHANGED <<env, route, form, category_id, session, published, nreq,
                       exceptService>>

\* api_publish_offer: the handler reads no setting.  An exception that is no
\* EbayError leaves the handler and the framework answers 500.
ApiPublishOffer ==
    \E offer \in OfferIds, token_ok, publish_ok \in BOOLEAN :
        /\ Receive("api_publish", [NoForm EXCEPT !.offer = offer])
        /\ IF ~token_ok THEN Fail("api_publish", 500, "authorization") /\ UNCHANGED <<calls, published>>
           ELSE /\ calls' = Append(calls, EbayCall("publish_offer", publish_ok))
                /\ IF publish_ok THEN Respond(200) /\ published' = published \cup {offer}
                   ELSE Fail("api_publish", 502, "upstream") /\ UNCHANGED published
        /\ UNCHANGED <<env, category_id, session, exceptService>>

\* publish_listing: the offer id comes in the JSON body.
PublishListing ==
    \E json \in BOOLEAN, offer \in OfferIds, token_ok, publish_ok \in BOOLEAN :
        /\ Receive("publish", [NoForm EXCEPT !.json = json, !.offer = offer])
        /\ IF ~json THEN Fail("publish", 400, "validation") /\ UNCHANGED <<calls, published, session>>
           ELSE IF ~token_ok THEN Fail("publish", 500, "authorization") /\ UNCHANGED <<calls, published, session>>
           ELSE /\ calls' = Append(calls, EbayCall("publish_offer", publish_ok))
                /\ IF publish_ok
                   THEN Respond(200) /\ published' = published \cup {offer} /\ session' = {}
                   ELSE Fail("publish", 502, "upstream") /\ UNCHANGED <<published, session>>
        /\ UNCHANGED <<env, category_id, exceptService>>

\* The response is sent and the service waits for the next request.
NextRequest ==
    /\ lpc = "responded"
    /\ lpc' = "ready"
    /\ route' = ""
    /\ form' = NoForm
    /\ category_id' = ""
    /\ calls' = <<>>
    /\ status' = 0
    /\ UNCHANGED <<env, session, published, nreq, failures, exceptService>>

NextService ==
    \/ UploadValidate \/ UploadAnalyze \/ UploadPictures \/ UploadInventory \/ UploadOffer
    \/ ApiCreateValidate \/ ApiCreateInventory \/ ApiCreateOffer
    \/ ApiPublishOffer \/ PublishListing \/ NextRequest

SpecService == InitService /\ [][NextService]_vars

\* The service started with its required settings complete and no default
\* category.
ListingEnvs ==
    {e \in EnvInputs :
        /\ ~e.FORCE_DRAFTS
        /\ e.PAYMENT_POLICY_ID # "" /\ e.RETURN_POLICY_ID # ""
        /\ e.FULFILLMENT_POLICY_ID # "" /\ e.MERCHANT_LOCATION_KEY # ""
        /\ e.DEFAULT_CATEGORY_ID = ""}

InitListing ==
    /\ ServiceAlone
    /\ env \in ListingEnvs
    /\ route = ""
    /\ form = NoForm
    /\ lpc = "ready"
    /\ category_id = ""
    /\ calls = <<>>
    /\ status = 0
    /\ session = {}
    /\ published = {}
    /\ nreq = 0
    /\ failures = {}

SpecListing == InitListing /\ [][NextService]_vars

(***************************************************************************)
(* Claims about category_rules.py, checked under SpecRules.                *)
(***************************************************************************)
ConditionDone == pc = "done" /\ call = "normalize_condition_for_type"
AspectsDone == pc = "done" /\ call = "apply_required_aspects"

\* C2: for item type clothing, a generic condition that says 'very good'
\* ('very good', 'VERY_GOOD', 'very-good') is reconciled to PRE_OWNED_EXCELLENT.
C2_VeryGoodClothing ==
    (ConditionDone /\ item_type = "clothing"
        /\ condition \in {"very good", "VERY_GOOD", "very-good"})
    => result = "PRE_OWNED_EXCELLENT"

\* C3: after apply_required_aspects returns, every aspect named in the item
\* type's single_value_aspects holds at most one value, and Color: [Red, Green]
\* with item type clothing ends as Colour: [Multicoloured].
C3_SingleValued ==
    AspectsDone =>
        /\ \A i \in DOMAIN get_item_type_rules(item_type).single_value_aspects :
              LET name == get_item_type_rules(item_type).single_value_aspects[i]
              IN  name \in DOMAIN result => Len(result[name]) <= 1
        /\ (item_type = "clothing" /\ DOMAIN aspects_arg = {"Color"}
                /\ aspects_arg["Color"] = <<"Red", "Green">>)
           => ("Colour" \in DOMAIN result /\ result["Colour"] = <<"Multicoloured">>)

\* C4: when the aspects passed in hold both a Color key and a Colour key, the
\* result keeps the Colour entry and holds no Color key.
C4_ColourWins ==
    (AspectsDone /\ {"Color", "Colour"} \subseteq DOMAIN aspects_arg)
    => ("Colour" \in DOMAIN result /\ "Color" \notin DOMAIN result)

KitchenwareTypes == {"kitchenware", "mug", "Plate", " crockery "}

\* C7 as stated: for kitchenware and its aliases the reconciler returns only
\* NEW, NEW_OTHER or USED, never USED_EXCELLENT or USED_VERY_GOOD.
C7_KitchenwareNeverUsedExcellent ==
    (ConditionDone /\ item_type \in KitchenwareTypes)
    => (result \in {"NEW", "NEW_OTHER", "USED"}
        /\ result \notin {"USED_EXCELLENT", "USED_VERY_GOOD"})

\* C7 amended: for kitchenware and its aliases the reconciler returns only
\* NEW, NEW_OTHER or USED_EXCELLENT (the enum the table uses for "Used");
\* it never returns USED_VERY_GOOD.
C7_KitchenwareConditions ==
    (ConditionDone /\ item_type \in KitchenwareTypes)
    => result \in {"NEW", "NEW_OTHER", "USED_EXCELLENT"}

\* A used-grade condition reconciled for a kitchenware alias, and a condition
\* no key matches, which takes the type's default.
C7_Witness ==
    /\ ConditionDone
    /\ \/ item_type = "mug" /\ condition = "mint" /\ result = "USED_EXCELLENT"
       \/ item_type = " crockery " /\ condition = "very good" /\ result = "USED_EXCELLENT"

\* C14: every value normalize_condition_for_type returns, for every item type
\* (canonical, aliased or unknown) and every condition string, is a member of
\* the canonical valid-condition set.
C14_ReconciledIsCanonical == ConditionDone => result \in valid_conditions

\* An unknown item type and a condition no key matches; an alias and a
\* condition a key matches.
C14_Witness ==
    /\ ConditionDone
    /\ \/ item_type = "widget" /\ condition = "mint" /\ result = "USED_VERY_GOOD"
       \/ item_type = "Plate" /\ condition = "Brand New" /\ result = "NEW"

\* C15: after apply_required_aspects returns, every aspect named in the item
\* type's required_aspects is present with a non-empty list, and one that was
\* absent or empty holds the type's default value as a singleton, or
\* ["Not Specified"] when the type has no default for it.
C15_RequiredPresent ==
    AspectsDone =>
        \A i \in DOMAIN get_item_type_rules(item_type).required_aspects :
            LET rules == get_item_type_rules(item_type)
                name == rules.required_aspects[i]
            IN  /\ name \in DOMAIN result
                /\ result[name] # <<>>
                /\ (name \notin DOMAIN aspects_arg \/ aspects_arg[name] = <<>>)
                   => result[name] = <<PairGet(rules.default_aspects, name, "Not Specified")>>

\* Shoes with an empty Brand list: the default and "Not Specified" are filled.
C15_Witness ==
    /\ AspectsDone
    /\ item_type = "shoes"
    /\ "Brand" \in DOMAIN aspects_arg /\ aspects_arg["Brand"] = <<>>
    /\ result["Brand"] = <<"Unbranded">>
    /\ result["UK Shoe Size"] = <<"Not Specified">>

\* C26: for every item type and every key of its condition_mapping table,
\* normalize_condition_for_type called with the key returns the value the
\* table maps the key to: no entry is shadowed by an earlier key or made
\* unmatchable by the cleaning of the condition string.
C26_EveryKeyMapsToItsValue ==
    (/\ ConditionDone
     /\ condition \in PairKeys(get_item_type_rules(item_type).condition_mapping))
    => result = PairGet(get_item_type_rules(item_type).condition_mapping, condition, "")

(***************************************************************************)
(* Claims about _normalize_ai_response, checked under SpecNormalize.       *)
(***************************************************************************)
NormalizeCalled == npc \in {"returned", "raised", "again"}
NormalizeReturned == npc \in {"returned", "again"}

\* C1: for every value of the raw condition field (any case, any spacing, any
\* text, any type, or missing) the condition returned is a member of the
\* canonical valid-condition set of 16 values.
C1_ConditionCanonical ==
    /\ Cardinality(valid_conditions) = 16
    /\ NormalizeReturned =>
          /\ normalized.value.condition.t = "str"
          /\ normalized.value.condition.s \in valid_conditions

\* A free-text condition outside the set and outside the alias map, and a
\* condition that is not even a string, have been normalized.
C1_Witness ==
    /\ NormalizeReturned
    /\ \/ raw_data.condition = JStr("mint-like") /\ normalized.value.condition.s = "USED_VERY_GOOD"
       \/ raw_data.condition = JStr("pre-owned") /\ normalized.value.condition.s = "USED_VERY_GOOD"
    /\ raw_data.title = Missing

\* C8: for every value of the raw price field the normalized price lies in
\* [0.99, 999999.99] with at most 2 decimal places, and an unparsable price
\* gives 9.99.
C8_PriceInRange ==
    NormalizeCalled =>
        /\ normalized.status = "returned"
        /\ normalized.value.price.t = "float"
        /\ normalized.value.price.m % 10 = 0
        /\ normalized.value.price.m >= PriceMinCents * 10
        /\ normalized.value.price.m <= PriceMaxCents * 10
        /\ PyFloat(raw_data.price).k \in {"ValueError", "TypeError"}
           => normalized.value.price.m = DefaultPriceMilli

\* The record a call returns is a NormalizedListing: a non-empty title of at
\* most 80 characters, a non-empty description, and every aspect a non-empty
\* list of non-empty trimmed strings.
ValidListing(r) ==
    /\ DOMAIN r = Fields
    /\ r.title.t = "str" /\ r.title.s # "" /\ Len(r.title.s) <= TitleMax
    /\ r.description.t = "str" /\ r.description.s # ""
    /\ r.price.t = "float"
    /\ r.condition.t = "str"
    /\ r.category_keywords.t = "str"
    /\ r.aspects.t = "dict"
    /\ \A i \in DOMAIN r.aspects.d :
          LET values == r.aspects.d[i][2]
          IN  /\ values.t = "list"
              /\ values.l # <<>>
              /\ \A j \in DOMAIN values.l :
                    /\ values.l[j].t = "str"
                    /\ values.l[j].s # ""
                    /\ Strip(values.l[j].s) = values.l[j].s

\* C9: the normalizer is total: for every raw record it returns without
\* raising, and the record returned is a valid NormalizedListing.
C9_Total ==
    NormalizeCalled =>
        /\ normalized.status = "returned"
        /\ ValidListing(normalized.value)

\* C10: normalizing the record returned by a normalization yields that same
\* record, field for field.
C10_Idempotent ==
    npc = "again" =>
        /\ renormalized.status = "returned"
        /\ \A f \in Fields : renormalized.value[f] = normalized.value[f]

\* A record that the first normalization changed in its title (cut at 80 and
\* trimmed) has been normalized a second time.
C10_Witness ==
    /\ npc = "again"
    /\ raw_data.title = JStr(Repeat("a", TitleMax - 1) \o " b")
    /\ normalized.value.title = JStr(Repeat("a", TitleMax - 1))
    /\ raw_data.price # normalized.value.price

\* The raw condition as a string, upper-cased, spaces made underscores.
CleanedCondition ==
    Replace(Upper(PyStr(DataGet(raw_data, "condition", JStr("USED_VERY_GOOD")))), " ", "_")

\* The condition reaches the keyword inference: no alias, no valid value.
ConditionInferred ==
    /\ NormalizeReturned
    /\ CleanedCondition \notin PairKeys(invalid_to_valid)
    /\ CleanedCondition \notin valid_conditions

\* C21: in the keyword inference a condition containing both LIKE and NEW
\* normalizes to LIKE_NEW, and one containing both VERY and GOOD normalizes
\* to USED_VERY_GOOD, the two-word patterns being tested before the
\* one-word ones.
C21_TwoWordsFirst ==
    ConditionInferred =>
        /\ Contains("LIKE", CleanedCondition) /\ Contains("NEW", CleanedCondition)
              => normalized.value.condition = JStr("LIKE_NEW")
        /\ Contains("VERY", CleanedCondition) /\ Contains("GOOD", CleanedCondition)
              /\ ~Contains("LIKE", CleanedCondition)
              => normalized.value.condition = JStr("USED_VERY_GOOD")

(***************************************************************************)
(* Claims about the routes, checked under SpecService.                     *)
(***************************************************************************)
SettingMissing ==
    \/ env.PAYMENT_POLICY_ID = ""
    \/ env.RETURN_POLICY_ID = ""
    \/ env.FULFILLMENT_POLICY_ID = ""
    \/ env.MERCHANT_LOCATION_KEY = ""

\* The manual route has no category: none in the body, no default.  The upload
\* route always has one (its matcher is given a fallback).
NoCategory ==
    route = "api_create" /\ form.category = "" /\ env.DEFAULT_CATEGORY_ID = ""

\* C5: when a required policy id or the merchant location key is missing, or
\* no category can be resolved, a listing request makes no eBay call: no
\* picture upload, no inventory-item upsert, no offer creation.
C5_FailFast ==
    (route \in {"upload", "api_create"} /\ (SettingMissing \/ NoCategory))
    => calls = <<>>

\* C6: while FORCE_DRAFTS is true a request to /api/publish/<offer_id> never
\* calls publish_offer, and no offer becomes a live listing through it.
C6_PublishDisabled ==
    (route = "api_publish" /\ env.FORCE_DRAFTS)
    => \A i \in DOMAIN calls : calls[i].call # "publish_offer"

\* The upload request in hand got no analysis: the vision model could not be
\* reached, its reply holds no {...} span, or the span does not decode.
AnalysisFailed ==
    /\ route = "upload"
    /\ form.images = "ok"
    /\ \/ ~form.reply.reachable
       \/ NoJsonSpan(form.reply.content)
       \/ ~form.reply.decodes

\* C24: when the vision analysis fails the analysis raises AIAnalysisError
\* and nothing else, the upload request answers with an error, and no picture
\* upload, inventory-item upsert or offer creation is made in that request.
C24_AnalysisFailureStops ==
    AnalysisFailed =>
        /\ analyze_multiple_images_for_listing(form.reply) = "AIAnalysisError"
        /\ calls = <<>>
        /\ lpc \in {"analyze", "responded"}
        /\ lpc = "responded" =>
              /\ status >= 400
              /\ <<"upload", "analysis", status>> \in failures

\* A reply whose span does not decode has been answered with 500.
C24_Witness ==
    /\ AnalysisFailed
    /\ form.reply.content = "Here: {title} ok"
    /\ lpc = "responded"
    /\ status = 500
    /\ calls = <<>>

\* The calls of an upload request whose offer eBay refused: the pictures and
\* the inventory item accepted, then the offer.
OfferRefusedCalls ==
    /\ Len(calls) = 3
    /\ calls[1] = EbayCall("upload_picture", TRUE)
    /\ calls[2].call = "inventory_item" /\ calls[2].ok
    /\ calls[3] = EbayCall("create_offer", FALSE)

\* C25: in the upload request the offer is created only after the
\* inventory-item upsert succeeded; when the offer creation then fails the
\* request answers with an error and makes no further call, so the inventory
\* item and the uploaded pictures stay in place.
C25_OfferAfterUpsert ==
    route = "upload" =>
        /\ \A i \in DOMAIN calls :
              calls[i].call = "create_offer"
                 => \E j \in 1..(i - 1) : calls[j].call = "inventory_item" /\ calls[j].ok
        /\ (\E i \in DOMAIN calls : calls[i] = EbayCall("create_offer", FALSE))
              => /\ OfferRefusedCalls
                 /\ lpc = "responded"
                 /\ status >= 400

\* The upsert succeeded, the offer was refused, and 502 was answered.
C25_Witness ==
    /\ route = "upload"
    /\ OfferRefusedCalls
    /\ lpc = "responded"
    /\ status = 502

\* C28: every inventory-item payload the service sends to eBay, on the upload
\* route and on the manual-create route alike, carries a condition of the
\* canonical valid-condition set.
C28_SentConditionCanonical ==
    \A i \in DOMAIN calls :
        calls[i].call = "inventory_item" => calls[i].condition \in valid_conditions

\* The request's calls so far hold an accepted upsert and, after it, an
\* accepted offer.
UpsertAndOfferAccepted(log) ==
    \E i, j \in DOMAIN log :
        /\ i < j
        /\ log[i].call = "inventory_item" /\ log[i].ok
        /\ log[j] = EbayCall("create_offer", TRUE)

\* C30: session['pending_listing'] is stored only by an upload request whose
\* inventory-item upsert and offer creation both succeeded, and is removed
\* only by a publish request whose publish call succeeded; an upload or a
\* publish request that answers with an error leaves the session as it was.
C30_PendingListingStoredAndRemoved ==
    [][/\ (session' # session /\ session' # {}) =>
             /\ route' = "upload" /\ status' = 302
             /\ session' = {nreq'}
             /\ UpsertAndOfferAccepted(calls')
       /\ (session # {} /\ session' = {}) =>
             /\ route' = "publish" /\ status' = 200
             /\ calls' = <<EbayCall("publish_offer", TRUE)>>
       /\ (/\ route' \in {"upload", "publish"}
           /\ lpc # "responded" /\ lpc' = "responded"
           /\ status' >= 400) => session' = session]_vars

\* A pending listing stored by an earlier upload is still in the session
\* after eBay refused a publish call.
C30_Witness ==
    /\ route = "publish"
    /\ lpc = "responded"
    /\ status = 502
    /\ calls = <<EbayCall("publish_offer", FALSE)>>
    /\ session # {}

(***************************************************************************)
(* Claims about the causes of failure of a listing request.                *)
(***************************************************************************)
ListingRoutes == {"upload", "api_create"}
ListingCauses == {"validation", "analysis", "upstream", "configuration"}

\* C11: in a listing request no two failures of different causes (input
\* validation, analysis, upstream marketplace, configuration) are answered
\* with the same HTTP status code.
C11_CausesHaveOwnStatus ==
    \A f, g \in failures :
        (/\ f[1] \in ListingRoutes /\ g[1] \in ListingRoutes
         /\ f[2] \in ListingCauses /\ g[2] \in ListingCauses
         /\ f[2] # g[2])
        => f[3] # g[3]

(***************************************************************************)
(* dumo.py: trading_call.  One action is one pass of the loop: a request   *)
(* is sent and its response handled.  The response is the environment's    *)
(* choice.                                                                 *)
(***************************************************************************)
MaxAttempts == 5   \* range(1, 6)

\* A response: its HTTP status and, when the body is XML, the text of its
\* Ack element ("" when the element is absent).
HttpResponse(code, parses, ack) == <<code, parses, ack>>
status_code(r) == r[1]
Parses(r) == r[2]
Ack(r) == r[3]

Responses ==
    {HttpResponse(c, FALSE, "") : c \in {503, 500, 404, 200}}
    \cup {HttpResponse(200, TRUE, a) :
              a \in {"Success", "SUCCESS", "Warning", "SuccessWithWarning", "Failure",
                     "PartialFailure", ""}}

\* r.raise_for_status() raises HTTPError for a 4xx or 5xx status.
raise_for_status_raises(r) == status_code(r) >= 400 /\ status_code(r) < 600

InitTrading ==
    /\ TradingAlone
    /\ attempt = 1
    /\ responses = <<>>
    /\ slept = 0
    /\ tpc = "loop"

\* The next pass, or the end of the loop: a call whose loop ends returns
\* None.
NextAttempt ==
    /\ attempt' = attempt + 1
    /\ tpc' = IF attempt = MaxAttempts THEN "returned_none" ELSE "loop"

TradingEnds(how) == tpc' = how /\ UNCHANGED <<attempt, slept>>

TradingAttempt ==
    \E r \in Responses :
        /\ tpc = "loop"
        /\ responses' = Append(responses, r)
        /\ IF status_code(r) = 503
           THEN slept' = slept + 3 * attempt /\ NextAttempt
           ELSE IF raise_for_status_raises(r) THEN TradingEnds("raised_HTTPError")
           ELSE IF ~Parses(r) THEN TradingEnds("raised_ParseError")
           ELSE IF Ack(r) # "" /\ Lower(Ack(r)) = "success" THEN TradingEnds("returned_root")
           ELSE IF Ack(r) # "" /\ Lower(Ack(r)) \in {"warning", "successwithwarning"}
                THEN TradingEnds("returned_root")
           ELSE /\ slept' = slept + 3 * attempt
                /\ IF attempt = MaxAttempts
                   THEN tpc' = "raised_RuntimeError" /\ UNCHANGED attempt
                   ELSE NextAttempt
        /\ UNCHANGED exceptTrading

NextTrading == TradingAttempt

SpecTrading == InitTrading /\ [][NextTrading]_vars

(***************************************************************************)
(* Claims about trading_call, checked under SpecTrading.                   *)
(***************************************************************************)
\* C12: trading_call sends another request only when the previous response
\* was HTTP 503, sends at most 5 requests per call, and a response other
\* than 503 ends the call without another attempt.
C12_ResendOnly503 ==
    /\ Len(responses) <= 5
    /\ \A i \in 1..(Len(responses) - 1) : status_code(responses[i]) = 503
    /\ (Len(responses) > 0 /\ status_code(responses[Len(responses)]) # 503) => tpc # "loop"

\* C27: every call of trading_call ends by returning a parsed response whose
\* Ack is success or a warning, or by raising an error; whatever the HTTP
\* responses are, five 503 responses included, it never returns without a
\* response.
C27_ReturnsResponseOrRaises ==
    /\ tpc \in {"loop", "returned_root", "raised_HTTPError", "raised_ParseError",
                "raised_RuntimeError"}
    /\ tpc = "returned_root" =>
          Lower(Ack(responses[Len(responses)]))
              \in {"success", "warning", "successwithwarning"}

(***************************************************************************)
(* auth.py: the token cache.  Times are in seconds.  A token is a str: ""  *)
(* stands for None, and the k-th refresh request returns the token "tk".   *)
(***************************************************************************)
MaxTime == 8        \* the clock's first stretch ends here
MaxLate == 2        \* seconds of the clock's second stretch
MaxRefreshes == 3   \* refresh requests one behaviour posts

ExpiryBuffer == 120        \* "conservative expiry buffer"
EnvTokenLeash == 300       \* "short leash; will refresh next call"
DefaultExpiresIn == 7200   \* payload.get("expires_in", 7200)

\* _TOKEN_CACHE
TokenCache(token, expires) == [access_token |-> token, expires_at |-> expires]

\* The lifetimes a refresh reports: around the buffer, so that the cache
\* expires within the clock's range, or none at all (0 stands for a payload
\* without expires_in).
Lifetimes == {0, 119, 120, 121, 123, 126}
expires_in(l) == IF l = 0 THEN DefaultExpiresIn ELSE l

\* A plausible slip: the expiry is recorded without the buffer.
expires_at_unbuffered(t, l) == t + expires_in(l)

\* The instants of the clock: the first seconds of the process, and the
\* seconds in which the leash of an environment token cached in the first
\* stretch runs out.
InClock(t) ==
    \/ t <= MaxTime
    \/ t >= EnvTokenLeash /\ t <= EnvTokenLeash + MaxLate

\* time.time() + int(payload.get("expires_in", 7200)) - 120
expires_at_of(t, l) == t + expires_in(l) - ExpiryBuffer

Grant(t, l, token) == [t |-> t, L |-> l, token |-> token]
NoGrant == Grant(0, 0, "")

\* A get_oauth_token call: when it started, how it ended, the token it
\* returned, whether it posted a refresh request, and the cache and the
\* last grant it found.
Call(at, how, token, posted) ==
    [at |-> at, how |-> how, token |-> token, posted |-> posted,
     found |-> token_cache, prior |-> granted]

InitAuth ==
    /\ AuthAlone
    /\ now = 1
    /\ os_env \in [credentials : BOOLEAN, EBAY_ACCESS_TOKEN : {"", "env"}]
    /\ token_cache = TokenCache("", 0)
    /\ requests_sent = 0
    /\ granted = NoGrant
    /\ last_call = [at |-> 0, how |-> "none", token |-> "", posted |-> FALSE,
                    found |-> TokenCache("", 0), prior |-> NoGrant]

\* Time passes between two calls.
Tick ==
    \E step \in {1, EnvTokenLeash - 1} :
        /\ InClock(now + step)
        /\ now' = now + step
        /\ UNCHANGED <<os_env, token_cache, requests_sent, granted, last_call, exceptAuth>>

\* get_oauth_token returns the cached token.
ReturnCached ==
    /\ token_cache.access_token # ""
    /\ now < token_cache.expires_at
    /\ last_call' = Call(now, "cached", token_cache.access_token, FALSE)
    /\ UNCHANGED <<now, os_env, token_cache, requests_sent, granted, exceptAuth>>

\* get_oauth_token bootstraps from EBAY_ACCESS_TOKEN.
ReturnEnvToken ==
    /\ ~(token_cache.access_token # "" /\ now < token_cache.expires_at)
    /\ os_env.EBAY_ACCESS_TOKEN # "" /\ token_cache.access_token = ""
    /\ token_cache' = TokenCache(os_env.EBAY_ACCESS_TOKEN, now + EnvTokenLeash)
    /\ last_call' = Call(now, "env", os_env.EBAY_ACCESS_TOKEN, FALSE)
    /\ UNCHANGED <<now, os_env, requests_sent, granted, exceptAuth>>

\* get_oauth_token falls through to _refresh_oauth_token.
Refreshing ==
    /\ ~(token_cache.access_token # "" /\ now < token_cache.expires_at)
    /\ ~(os_env.EBAY_ACCESS_TOKEN # "" /\ token_cache.access_token = "")

\* _refresh_oauth_token without the credentials: RuntimeError, no request.
RefreshUnconfigured ==
    /\ Refreshing
    /\ ~os_env.credentials
    /\ last_call' = Call(now, "raised_RuntimeError", "", FALSE)
    /\ UNCHANGED <<now, os_env, token_cache, requests_sent, granted, exceptAuth>>

\* The request fails (raise_for_status, or a payload without access_token).
RefreshFails ==
    \E took \in {0, 1} :
        /\ Refreshing
        /\ os_env.credentials
        /\ requests_sent < MaxRefreshes
        /\ InClock(now + took)
        /\ requests_sent' = requests_sent + 1
        /\ now' = now + took
        /\ last_call' = Call(now, "raised_HTTPError", "", TRUE)
        /\ UNCHANGED <<os_env, token_cache, granted, exceptAuth>>

\* The payload holds a token and an expires_in that int() rejects: the
\* token is cached, then the exception leaves the expiry as it was.
RefreshBadExpiry ==
    \E took \in {0, 1} :
        /\ Refreshing
        /\ os_env.credentials
        /\ requests_sent < MaxRefreshes
        /\ InClock(now + took)
        /\ requests_sent' = requests_sent + 1
        /\ now' = now + took
        /\ token_cache' = TokenCache("t" \o NatToStr(requests_sent'),
                                     token_cache.expires_at)
        /\ last_call' = Call(now, "raised_ValueError", "", TRUE)
        /\ UNCHANGED <<os_env, granted, exceptAuth>>

\* The refresh succeeds: the token and its expiry are cached.
RefreshSucceeds ==
    \E took \in {0, 1}, l \in Lifetimes :
        /\ Refreshing
        /\ os_env.credentials
        /\ requests_sent < MaxRefreshes
        /\ InClock(now + took)
        /\ requests_sent' = requests_sent + 1
        /\ now' = now + took
        /\ token_cache' = TokenCache("t" \o NatToStr(requests_sent'),
                                     expires_at_of(now', l))
        /\ granted' = Grant(now', expires_in(l), token_cache'.access_token)
        /\ last_call' = Call(now, "refreshed", token_cache'.access_token, TRUE)
        /\ UNCHANGED <<os_env, exceptAuth>>

NextAuth ==
    \/ Tick \/ ReturnCached \/ ReturnEnvToken \/ RefreshUnconfigured
    \/ RefreshFails \/ RefreshBadExpiry \/ RefreshSucceeds

SpecAuth == InitAuth /\ [][NextAuth]_vars

(***************************************************************************)
(* Claims about the token cache, checked under SpecAuth.                   *)
(***************************************************************************)
\* C13: after a successful refresh at time t that reports lifetime L, a
\* get_oauth_token call before t + L - 120 returns that token from the cache
\* and posts no refresh request, a call at or after t + L - 120 posts a
\* refresh request, and no cached token is returned at or after its recorded
\* expiry.
C13_CachedUntilBuffer ==
    LET c == last_call
        g == last_call.prior
    IN  /\ (c.how # "none" /\ g.token # "" /\ c.at < g.t + g.L - 120)
            => (c.how = "cached" /\ c.token = g.token /\ ~c.posted)
        /\ (c.how # "none" /\ g.token # "" /\ c.at >= g.t + g.L - 120) => c.posted
        /\ c.how = "cached" => c.at < c.found.expires_at

\* A token granted after an earlier grant expired is returned from the cache.
C13_Witness ==
    /\ last_call.how = "cached"
    /\ last_call.prior.token = "t2"
    /\ last_call.at > last_call.prior.t

\* The ways a get_oauth_token call fails.
RaisedByTokenCall == {"raised_RuntimeError", "raised_HTTPError", "raised_ValueError"}

\* The last call returned the environment token.
EnvTokenReturned ==
    /\ last_call.how \in {"env", "cached"}
    /\ last_call.token = os_env.EBAY_ACCESS_TOKEN

\* The environment token enters an empty cache only, and leaves it within
\* its leash: a call returns it from the cache before its expiry only, and a
\* call that finds a token past its expiry returns a refreshed token or
\* fails.
EnvTokenOnLeash ==
    /\ last_call.how = "env" =>
          /\ last_call.found.access_token = ""
          /\ token_cache = TokenCache(os_env.EBAY_ACCESS_TOKEN,
                                      last_call.at + EnvTokenLeash)
    /\ (EnvTokenReturned /\ last_call.how = "cached") =>
          /\ last_call.found.access_token = os_env.EBAY_ACCESS_TOKEN
          /\ last_call.at < last_call.found.expires_at
          /\ last_call.found.expires_at <= last_call.at + EnvTokenLeash
    /\ (/\ last_call.how # "none"
         /\ last_call.found.access_token # ""
         /\ last_call.at >= last_call.found.expires_at) =>
          \/ last_call.how \in RaisedByTokenCall
          \/ /\ last_call.how = "refreshed"
             /\ last_call.posted
             /\ last_call.token = token_cache.access_token
             /\ last_call.token # os_env.EBAY_ACCESS_TOKEN

\* C29: the EBAY_ACCESS_TOKEN token is taken into the cache only when the
\* cache holds no token and is returned only during the 300 seconds that
\* follow; afterwards every get_oauth_token call returns a refreshed token
\* or fails, and a call that fails leaves the cached token and expiry as it
\* found them.
C29_EnvTokenOnlyOnLeash ==
    /\ EnvTokenOnLeash
    /\ last_call.how \in RaisedByTokenCall => token_cache = last_call.found

(***************************************************************************)
(* inventory_flow.py: the payload builders.  An Optional[str] argument is  *)
(* a str, "" standing for None (the code tests its truth only); `aspects`  *)
(* is a sequence of <<key, value>> pairs, <<>> standing for None and {}; a *)
(* dict the code builds key by key (product) is a function on its keys.    *)
(***************************************************************************)
MaxPayloadKeys == 2   \* keys of the aspects argument

ProductTitleMax == 80
ProductDescriptionMax == 40000
MARKETPLACE_ID == "EBAY_GB"

\* brand_values[0]: the first member of a list, the first character of a str.
FirstOf(v) == IF v.t = "str" THEN SubSeq(v.s, 1, 1) ELSE v.l[1].s

\* product["mpn"] = mpn if mpn else "Does Not Apply"
MpnOrDefault(mpn) == IF mpn # "" THEN mpn ELSE "Does Not Apply"

\* A plausible slip: a brand promoted from the aspects gets no MPN.
WithPromotedBrandOnly(product, brand_values, mpn) ==
    IF PyTruthy(brand_values) /\ FirstOf(brand_values) # ""
    THEN Put(product, "brand", FirstOf(brand_values))
    ELSE product

\* The elif branch: the brand promoted from aspects["Brand"].
WithPromotedBrand(product, brand_values, mpn) ==
    IF PyTruthy(brand_values) /\ FirstOf(brand_values) # ""
    THEN Put(Put(product, "brand", FirstOf(brand_values)), "mpn", MpnOrDefault(mpn))
    ELSE product

\* The brand and its MPN.
WithBrand(product, brand, mpn, aspects_in) ==
    IF brand # ""
    THEN Put(Put(product, "brand", brand), "mpn", MpnOrDefault(mpn))
    ELSE IF aspects_in # <<>> /\ "Brand" \in PairKeys(aspects_in)
         THEN WithPromotedBrand(product, PairGet(aspects_in, "Brand", JList(<<>>)), mpn)
         ELSE product

\* An MPN given without a brand.
WithMpn(product, mpn) ==
    IF mpn # "" /\ "mpn" \notin DOMAIN product THEN Put(product, "mpn", mpn) ELSE product

\* [str(v) for v in values if v]
TruthyStrs(l) ==
    LET Keep[i \in 0..Len(l)] ==
            IF i = 0 THEN <<>>
            ELSE IF PyTruthy(l[i]) THEN Append(Keep[i - 1], PyStr(l[i]))
                 ELSE Keep[i - 1]
    IN  Keep[Len(l)]

\* A plausible slip: the Brand key is copied even when the brand is set.
ValidatedAspectsWithBrand(aspects_in, product) ==
    LET Loop[i \in 0..Len(aspects_in)] ==
            IF i = 0 THEN <<>>
            ELSE IF aspects_in[i][2].t = "list" /\ PyTruthy(aspects_in[i][2])
                 THEN PairPut(Loop[i - 1], aspects_in[i][1], TruthyStrs(aspects_in[i][2].l))
            ELSE IF PyTruthy(aspects_in[i][2])
                 THEN PairPut(Loop[i - 1], aspects_in[i][1], <<PyStr(aspects_in[i][2])>>)
            ELSE Loop[i - 1]
    IN  Loop[Len(aspects_in)]

\* The loop that fills validated_aspects.
ValidatedAspects(aspects_in, product) ==
    LET Loop[i \in 0..Len(aspects_in)] ==
            IF i = 0 THEN <<>>
            ELSE IF aspects_in[i][1] = "Brand" /\ "brand" \in DOMAIN product
                 THEN Loop[i - 1]
            ELSE IF aspects_in[i][2].t = "list" /\ PyTruthy(aspects_in[i][2])
                 THEN PairPut(Loop[i - 1], aspects_in[i][1], TruthyStrs(aspects_in[i][2].l))
            ELSE IF PyTruthy(aspects_in[i][2])
                 THEN PairPut(Loop[i - 1], aspects_in[i][1], <<PyStr(aspects_in[i][2])>>)
            ELSE Loop[i - 1]
    IN  Loop[Len(aspects_in)]

\* if validated_aspects: product["aspects"] = validated_aspects
WithAspects(product, validated) ==
    IF validated # <<>> THEN Put(product, "aspects", validated) ELSE product

\* The product block once the brand and the MPN are settled.
ProductWithAspects(product, aspects_in) ==
    IF aspects_in # <<>>
    THEN WithAspects(product, ValidatedAspects(aspects_in, product))
    ELSE product

ProductOf(a) ==
    ProductWithAspects(
        WithMpn(WithBrand([title |-> Truncate(a.title, ProductTitleMax),
                           description |-> Truncate(a.description, ProductDescriptionMax),
                           imageUrls |-> a.image_urls],
                          a.brand, a.mpn, a.aspects),
                a.mpn),
        a.aspects)

build_inventory_item_payload(a) ==
    IF build_inventory_item_payload_raises(a.image_urls) THEN Raised("ValueError")
    ELSE Returned([sku |-> a.sku,
                   condition |-> a.condition,
                   product |-> ProductOf(a),
                   quantity |-> IF a.quantity > 0 THEN a.quantity ELSE 0])

build_offer_payload(a, e) ==
    IF build_offer_payload_raises(a.category_id, e) THEN Raised("ValueError")
    ELSE Returned([sku |-> a.sku,
                   marketplaceId |-> MARKETPLACE_ID,
                   format |-> "FIXED_PRICE",
                   availableQuantity |-> 1,
                   categoryId |-> IF a.category_id # "" THEN a.category_id
                                  ELSE e.DEFAULT_CATEGORY_ID,
                   price |-> FloatToStr(a.price_value),
                   currency |-> "GBP",
                   paymentPolicyId |-> e.PAYMENT_POLICY_ID,
                   returnPolicyId |-> e.RETURN_POLICY_ID,
                   fulfillmentPolicyId |-> e.FULFILLMENT_POLICY_ID,
                   merchantLocationKey |-> e.MERCHANT_LOCATION_KEY])

(***************************************************************************)
(* Inputs of the payload builders, and one call of either.                 *)
(***************************************************************************)
PayloadAspectKeys == {"Brand", "Size", "brand"}
PayloadAspectValues ==
    {JList(<<>>), JList(<<JStr("Acme")>>), JList(<<JStr(""), JStr("Acme")>>),
     JList(<<JStr("Acme"), JStr("Zed")>>), JStr("Acme"), JStr("")}

\* Dicts of n distinct keys, in every insertion order.
RECURSIVE PayloadAspectDicts(_)
PayloadAspectDicts(n) ==
    IF n = 0 THEN {<<>>}
    ELSE {Append(d, <<k, v>>) : d \in PayloadAspectDicts(n - 1),
                                k \in PayloadAspectKeys, v \in PayloadAspectValues}

PayloadAspects ==
    {d \in UNION {PayloadAspectDicts(n) : n \in 0..MaxPayloadKeys} : DistinctKeys(d)}

InventoryItemArgs ==
    [ sku : {"SKU-1"},
      title : {"Mug", Repeat("x", ProductTitleMax + 1)},
      description : {"<p>Nice</p>"},
      quantity : {0 - 1, 1},
      image_urls : {<<>>, <<"u1">>, <<"u1", "u2">>},
      condition : {"USED_GOOD"},
      brand : {"", "Nike"},
      mpn : {"", "MPN-1"},
      aspects : PayloadAspects ]

OfferArgs ==
    [ sku : {"SKU-1"}, price_value : {9990, 12500}, category_id : {"", "9355"} ]

\* The settings of an empty environment: the defaults of os.getenv.
DefaultSettings ==
    [ PAYMENT_POLICY_ID |-> "", RETURN_POLICY_ID |-> "", FULFILLMENT_POLICY_ID |-> "",
      MERCHANT_LOCATION_KEY |-> "", DEFAULT_CATEGORY_ID |-> "", FORCE_DRAFTS |-> TRUE ]

InitPayload ==
    /\ PayloadAlone
    /\ bpc = "start"
    /\ payload = <<>>
    /\ \/ /\ builder = "build_inventory_item_payload"
          /\ args \in InventoryItemArgs
          /\ settings = DefaultSettings
       \/ /\ builder = "build_offer_payload"
          /\ args \in OfferArgs
          /\ settings \in Environments

BuildInventoryItemPayload ==
    /\ bpc = "start"
    /\ builder = "build_inventory_item_payload"
    /\ payload' = build_inventory_item_payload(args)
    /\ bpc' = "done"
    /\ UNCHANGED <<builder, args, settings, exceptPayload>>

BuildOfferPayload ==
    /\ bpc = "start"
    /\ builder = "build_offer_payload"
    /\ payload' = build_offer_payload(args, settings)
    /\ bpc' = "done"
    /\ UNCHANGED <<builder, args, settings, exceptPayload>>

NextPayload == BuildInventoryItemPayload \/ BuildOfferPayload

SpecPayload == InitPayload /\ [][NextPayload]_vars

(***************************************************************************)
(* Claims about the payload builders, checked under SpecPayload.           *)
(***************************************************************************)
InventoryItemBuilt ==
    bpc = "done" /\ builder = "build_inventory_item_payload" /\ payload.status = "returned"
OfferBuilt ==
    bpc = "done" /\ builder = "build_offer_payload" /\ payload.status = "returned"

\* C16: in every payload build_inventory_item_payload returns, a product with
\* a brand has an mpn too, the explicit MPN when one was given and "Does Not
\* Apply" otherwise, whether the brand is the argument or was promoted from
\* aspects["Brand"]; and an explicit brand argument wins over aspects["Brand"].
C16_BrandHasMpn ==
    (InventoryItemBuilt /\ "brand" \in DOMAIN payload.value.product) =>
        /\ "mpn" \in DOMAIN payload.value.product
        /\ payload.value.product["mpn"] =
               (IF args.mpn # "" THEN args.mpn ELSE "Does Not Apply")
        /\ args.brand # "" => payload.value.product["brand"] = args.brand

\* A brand promoted from the aspects, no MPN given.
C16_Witness ==
    /\ InventoryItemBuilt
    /\ args.brand = "" /\ args.mpn = ""
    /\ "brand" \in DOMAIN payload.value.product
    /\ payload.value.product["brand"] = "Acme"
    /\ payload.value.product["mpn"] = "Does Not Apply"

\* C17: in every payload build_inventory_item_payload returns, a product with
\* a brand has no Brand key in its aspects block.
C17_BrandOnce ==
    (InventoryItemBuilt /\ "brand" \in DOMAIN payload.value.product) =>
        \/ "aspects" \notin DOMAIN payload.value.product
        \/ "Brand" \notin PairKeys(payload.value.product["aspects"])

\* The aspects hold Brand and another key: the brand is promoted and the
\* block keeps the other key only.
C17_Witness ==
    /\ InventoryItemBuilt
    /\ {"Brand", "Size"} \subseteq PairKeys(args.aspects)
    /\ "brand" \in DOMAIN payload.value.product
    /\ "aspects" \in DOMAIN payload.value.product
    /\ PairKeys(payload.value.product["aspects"]) = {"Size"}

\* C18: build_inventory_item_payload raises exactly when image_urls is empty;
\* build_offer_payload raises exactly when no category ID comes from the
\* argument or the default, or a policy ID or the merchant location key is
\* empty; and a payload that is returned holds at least one image URL, or a
\* non-empty categoryId, three non-empty policy IDs and a non-empty
\* merchantLocationKey.
C18_BuildFailsExactlyWhen ==
    /\ (bpc = "done" /\ builder = "build_inventory_item_payload") =>
          /\ payload.status = "raised" <=> args.image_urls = <<>>
          /\ payload.status = "returned" => Len(payload.value.product["imageUrls"]) >= 1
    /\ (bpc = "done" /\ builder = "build_offer_payload") =>
          /\ payload.status = "raised" <=>
                \/ args.category_id = "" /\ settings.DEFAULT_CATEGORY_ID = ""
                \/ settings.PAYMENT_POLICY_ID = ""
                \/ settings.RETURN_POLICY_ID = ""
                \/ settings.FULFILLMENT_POLICY_ID = ""
                \/ settings.MERCHANT_LOCATION_KEY = ""
          /\ payload.status = "returned" =>
                /\ payload.value.categoryId # ""
                /\ payload.value.paymentPolicyId # ""
                /\ payload.value.returnPolicyId # ""
                /\ payload.value.fulfillmentPolicyId # ""
                /\ payload.value.merchantLocationKey # ""

\* An offer built with the default category.
C18_Witness ==
    /\ OfferBuilt
    /\ args.category_id = ""
    /\ payload.value.categoryId = "15687"
    /\ payload.value.merchantLocationKey = "loc-1"

(***************************************************************************)
(* category_matcher.py.  A category is a record of id, name and leaf; the  *)
(* table is the list load_categories returns (empty when the file is       *)
(* missing or broken).                                                     *)
(***************************************************************************)
MaxCategories == 2   \* categories in the table

Category(id, name, leaf) == [id |-> id, name |-> name, leaf |-> leaf]

\* [a-z0-9]
IsTokenChar(c) == (\E i \in 1..Len(LowerAlpha) : CharAt(LowerAlpha, i) = c) \/ IsDigit(c)

\* \w on a lowered name.
IsWordChar(c) == IsTokenChar(c) \/ c = "_"

\* re.findall(r"[a-z0-9]+", t) from position i on: `cur` is the run being
\* read, `toks` the runs already closed.
RECURSIVE FindTokens(_, _, _, _)
FindTokens(t, i, toks, cur) ==
    IF i > Len(t) THEN (IF cur # "" THEN Append(toks, cur) ELSE toks)
    ELSE IF IsTokenChar(CharAt(t, i)) THEN FindTokens(t, i + 1, toks, cur \o CharAt(t, i))
    ELSE FindTokens(t, i + 1, IF cur # "" THEN Append(toks, cur) ELSE toks, "")

tokenize(text) == FindTokens(Lower(text), 1, <<>>, "")

\* re.search(rf"\b{token}\b", name): an occurrence with no word character
\* next to it.
WholeWordIn(token, name) ==
    \E i \in 1..(Len(name) - Len(token) + 1) :
        /\ SubSeq(name, i, i + Len(token) - 1) = token
        /\ i = 1 \/ ~IsWordChar(CharAt(name, i - 1))
        /\ i + Len(token) - 1 = Len(name) \/ ~IsWordChar(CharAt(name, i + Len(token)))

\* The points of one token.
TokenPoints(token, name_lower) ==
    IF WholeWordIn(token, name_lower) THEN 3
    ELSE IF Contains(token, name_lower) THEN 1
    ELSE 0

\* The score of a name: the points of the tokens from index i on.
RECURSIVE ScoreFrom(_, _, _)
ScoreFrom(tokens, name_lower, i) ==
    IF i > Len(tokens) THEN 0
    ELSE TokenPoints(tokens[i], name_lower) + ScoreFrom(tokens, name_lower, i + 1)

\* " ".join(parts)
RECURSIVE JoinFrom(_, _)
JoinFrom(parts, i) ==
    IF i > Len(parts) THEN ""
    ELSE IF i = Len(parts) THEN parts[i]
    ELSE parts[i] \o " " \o JoinFrom(parts, i + 1)

\* values[:2]
FirstTwo(values) == SubSeq(values, 1, IF Len(values) < 2 THEN Len(values) ELSE 2)

priority_aspects ==
    <<"Type", "Garment Type", "Product Type", "Department", "Gender", "Style",
      "Category", "Brand">>

\* The values the priority aspects add to the query, from index i on.
RECURSIVE PriorityValues(_, _)
PriorityValues(aspects_in, i) ==
    IF i > Len(priority_aspects) THEN <<>>
    ELSE FirstTwo(PairGet(aspects_in, priority_aspects[i], <<>>))
         \o PriorityValues(aspects_in, i + 1)

query_parts(title, aspects_in, category_keywords) ==
    <<title>>
    \o (IF category_keywords # "" THEN <<category_keywords>> ELSE <<>>)
    \o (IF aspects_in # <<>> THEN PriorityValues(aspects_in, 1) ELSE <<>>)

\* A plausible slip: the whole table is searched, leaves or not.
search_pool_whole_table(cats) == cats

\* The leaf categories when there is one, else all of them.
search_pool(cats) ==
    IF \E i \in DOMAIN cats : cats[i].leaf
    THEN SelectSeq(cats, LAMBDA c : c.leaf)
    ELSE cats

\* The entry appended for a category when its score is positive.
KeepScored(cat, score) ==
    IF score > 0
    THEN <<[id |-> cat.id, name |-> cat.name, score |-> score, leaf |-> cat.leaf]>>
    ELSE <<>>

\* The categories of the pool with a positive score, from index i on.
RECURSIVE ScoredFrom(_, _, _)
ScoredFrom(pool, tokens, i) ==
    IF i > Len(pool) THEN <<>>
    ELSE KeepScored(pool[i], ScoreFrom(tokens, Lower(pool[i].name), 1))
         \o ScoredFrom(pool, tokens, i + 1)

\* The key -score alone of x is smaller than that of y.
KeyLessByScore(x, y) == x.score > y.score

\* The key (-score, len(name)) of x is smaller than that of y.
KeyLess(x, y) ==
    x.score > y.score \/ (x.score = y.score /\ Len(x.name) < Len(y.name))

\* x put into a sorted list behind every entry whose key is not greater.
InsertSorted(sorted, x) ==
    SubSeq(sorted, 1, Cardinality({j \in DOMAIN sorted : ~KeyLess(x, sorted[j])}))
    \o <<x>>
    \o SubSeq(sorted, Cardinality({j \in DOMAIN sorted : ~KeyLess(x, sorted[j])}) + 1,
              Len(sorted))

\* list.sort: stable, the first n entries of `scored` sorted.
RECURSIVE SortFirst(_, _)
SortFirst(scored, n) ==
    IF n = 0 THEN <<>> ELSE InsertSorted(SortFirst(scored, n - 1), scored[n])

\* l[:k]
Slice(l, k) ==
    IF k >= 0 THEN SubSeq(l, 1, IF k < Len(l) THEN k ELSE Len(l))
    ELSE SubSeq(l, 1, IF Len(l) + k > 0 THEN Len(l) + k ELSE 0)

\* scored.sort(...)
Sorted(scored) == SortFirst(scored, Len(scored))

\* The scoring, the sort and the cut, for the tokens of the query.
TopSuggestions(pool, query_tokens, top_k) ==
    IF query_tokens = <<>> THEN <<>>
    ELSE Slice(Sorted(ScoredFrom(pool, query_tokens, 1)), top_k)

\* The tokens of the query built from the arguments.
query_tokens_of(title, aspects_in, category_keywords) ==
    tokenize(JoinFrom(query_parts(title, aspects_in, category_keywords), 1))

suggest_category(cats, title, aspects_in, category_keywords, top_k) ==
    IF cats = <<>> THEN <<>>
    ELSE TopSuggestions(search_pool(cats),
                        query_tokens_of(title, aspects_in, category_keywords), top_k)

\* BestOf without the DEFAULT_CATEGORY_ID step.
BestOfNoDefault(found, fallback_category_id, default_category) ==
    IF found # <<>> THEN Returned(found[1].id)
    ELSE IF fallback_category_id # "" THEN Returned(fallback_category_id)
    ELSE Raised("ValueError")

\* The id chosen when suggest_category returned `found`.
BestOf(found, fallback_category_id, default_category) ==
    IF found # <<>> THEN Returned(found[1].id)
    ELSE IF fallback_category_id # "" THEN Returned(fallback_category_id)
    ELSE IF default_category # "" THEN Returned(default_category)
    ELSE Raised("ValueError")

\* top_k when the caller leaves it out.
DefaultTopK == 5

CategoryRows ==
    { Category("1", "Mugs_Cups", FALSE), Category("2", "Mug Sets", TRUE),
      Category("3", "Coffee Mug", TRUE) }

\* The tables: every list of at most MaxCategories rows, the empty one (no
\* file, broken file) included.
Tables == UNION { [1..n -> CategoryRows] : n \in 0..MaxCategories }

Titles == {"!!!", "Blue Mug", "mug mug"}
CategoryKeywords == {"", "mugs"}
MatcherAspects ==
    { <<>>, <<<<"Type", <<"Mug", "Sets", "Coffee">>>>>>, <<<<"Colour", <<"Mug">>>>>> }
TopKs == {-1, 0, 1, DefaultTopK}
FallbackIds == {"", "15687"}
DefaultCategoryIds == {"", "20693"}

Query(title, aspects_in, category_keywords, top_k, fallback_category_id, default_category) ==
    [ title |-> title, aspects |-> aspects_in, category_keywords |-> category_keywords,
      top_k |-> top_k, fallback_category_id |-> fallback_category_id,
      default_category |-> default_category ]

InitMatcher ==
    /\ MatcherAlone
    /\ mpc = "start"
    /\ suggestions = <<>>
    /\ best_id = <<>>
    /\ categories \in Tables
    /\ \E t \in Titles, a \in MatcherAspects, kw \in CategoryKeywords :
          \/ /\ matcher = "suggest_category"
             /\ \E k \in TopKs : query = Query(t, a, kw, k, "", "")
          \/ /\ matcher = "get_best_category_id"
             /\ \E f \in FallbackIds, d \in DefaultCategoryIds :
                   query = Query(t, a, kw, 1, f, d)

SuggestCategory ==
    /\ mpc = "start"
    /\ matcher = "suggest_category"
    /\ suggestions' = suggest_category(categories, query.title, query.aspects,
                                       query.category_keywords, query.top_k)
    /\ mpc' = "done"
    /\ UNCHANGED <<matcher, categories, query, best_id, exceptMatcher>>

GetBestCategoryId ==
    /\ mpc = "start"
    /\ matcher = "get_best_category_id"
    /\ \E found \in {suggest_category(categories, query.title, query.aspects,
                                      query.category_keywords, 1)} :
          /\ suggestions' = found
          /\ best_id' = BestOf(found, query.fallback_category_id, query.default_category)
    /\ mpc' = "done"
    /\ UNCHANGED <<matcher, categories, query, exceptMatcher>>

NextMatcher == SuggestCategory \/ GetBestCategoryId

SpecMatcher == InitMatcher /\ [][NextMatcher]_vars

\* get_best_category_id has returned or raised.
BestChosen == mpc = "done" /\ matcher = "get_best_category_id"

\* suggest_category, called for itself, has returned.
Suggested == mpc = "done" /\ matcher = "suggest_category"

\* What suggest_category returns for the query when top_k is left out.
CandidatesOfQuery ==
    suggest_category(categories, query.title, query.aspects, query.category_keywords,
                     DefaultTopK)

\* The outcome get_best_category_id owes to the candidates.
BestFollows(candidates) ==
    /\ candidates # <<>> => best_id = Returned(candidates[1].id)
    /\ candidates = <<>> /\ query.fallback_category_id # ""
          => best_id = Returned(query.fallback_category_id)
    /\ candidates = <<>> /\ query.fallback_category_id = "" /\ query.default_category # ""
          => best_id = Returned(query.default_category)
    /\ best_id = Raised("ValueError")
          <=> /\ candidates = <<>>
              /\ query.fallback_category_id = ""
              /\ query.default_category = ""

\* C19: get_best_category_id returns the id of the first candidate of
\* suggest_category when there is one, otherwise the fallback id when it is
\* not empty, otherwise DEFAULT_CATEGORY_ID when it is not empty, and raises
\* the ValueError exactly when there is no candidate and both are empty.
C19_BestCategoryOrder == BestChosen => BestFollows(CandidatesOfQuery)

\* No candidate and no fallback: the DEFAULT_CATEGORY_ID setting was returned.
C19_Witness ==
    /\ BestChosen
    /\ categories # <<>>
    /\ suggestions = <<>>
    /\ query.fallback_category_id = ""
    /\ query.default_category # ""
    /\ best_id = Returned(query.default_category)

\* Some token of the query occurs in the lowered name of a searched category.
TokenOccurs(tokens, pool) ==
    \E i \in DOMAIN pool : \E j \in DOMAIN tokens : Contains(tokens[j], Lower(pool[i].name))

SomeTokenOccurs ==
    TokenOccurs(query_tokens_of(query.title, query.aspects, query.category_keywords),
                search_pool(categories))

\* Scores of at least 1, not increasing along the list, the name lengths not
\* decreasing between neighbours of equal score; nothing when the table is
\* empty or no token occurs in a searched name.
RankedSuggestions ==
    /\ \A i \in DOMAIN suggestions : suggestions[i].score >= 1
    /\ \A i \in 1..(Len(suggestions) - 1) :
          /\ suggestions[i].score >= suggestions[i + 1].score
          /\ suggestions[i].score = suggestions[i + 1].score
                => Len(suggestions[i].name) <= Len(suggestions[i + 1].name)
    /\ categories = <<>> \/ ~SomeTokenOccurs => suggestions = <<>>

QueryTokens == query_tokens_of(query.title, query.aspects, query.category_keywords)

\* The points of one token when the name is tokenized as the query is.
NameTokenPoints(token, name) ==
    IF \E j \in DOMAIN tokenize(name) : tokenize(name)[j] = token THEN 3
    ELSE IF Contains(token, Lower(name)) THEN 1
    ELSE 0

RECURSIVE NameTokenScore(_, _, _)
NameTokenScore(tokens, name, i) ==
    IF i > Len(tokens) THEN 0
    ELSE NameTokenPoints(tokens[i], name) + NameTokenScore(tokens, name, i + 1)

\* C22: the score of every category suggest_category returns is the sum over
\* the query tokens, repeated ones counted again, of 3 when the token is one
\* of the tokens of the name, else 1 when it is a substring of the lowered
\* name, else 0; and no returned category scores 0.
C22_ScoreByNameTokens ==
    mpc = "done" =>
        \A i \in DOMAIN suggestions :
            /\ suggestions[i].score = NameTokenScore(QueryTokens, suggestions[i].name, 1)
            /\ suggestions[i].score > 0

\* The table holds a leaf category.
TableHasLeaf == \E i \in DOMAIN categories : categories[i].leaf

\* C23: when the table holds at least one leaf category every candidate
\* suggest_category returns is a leaf, and a category that is no leaf is
\* returned only when the table holds no leaf at all.
C23_LeavesOnly ==
    mpc = "done" =>
        /\ TableHasLeaf => \A i \in DOMAIN suggestions : suggestions[i].leaf
        /\ (\E i \in DOMAIN suggestions : ~suggestions[i].leaf) => ~TableHasLeaf

\* The table holds a leaf, only a category that is no leaf matches the query,
\* and nothing came back.
C23_Witness ==
    /\ Suggested
    /\ TableHasLeaf
    /\ \E i \in DOMAIN categories :
          /\ ~categories[i].leaf
          /\ ScoreFrom(QueryTokens, Lower(categories[i].name), 1) > 0
    /\ query.top_k > 0
    /\ suggestions = <<>>

====
